---------------------------- MODULE Spec2Model ----------------------------
(***************************************************************************)
(* Model of lib/src/tar/export.rs: the serializer that turns an OSTree      *)
(* commit into a tar stream (full export, single chunk, final chunk) and    *)
(* the transformer that re-injects the detached commit metadata of such a   *)
(* stream.                                                                  *)
(*                                                                          *)
(* A tar stream is the sequence of the entries handed to the tar builder.   *)
(* A path is a record [comps, ext]: its components ("." is the current-dir  *)
(* component, "/" the root component) and the suffix the code formats after *)
(* the last dot of an object file name ("" for every other path).           *)
(* A checksum is the pair split_at(2) yields: <<first two hex digits,       *)
(* remaining 62 hex digits>>.                                               *)
(***************************************************************************)
EXTENDS Integers, Sequences, FiniteSets, TLC

(***************************************************************************)
(* Bounds of the model.                                                     *)
(***************************************************************************)
\* format versions tried by export_commit: 0 .. MaxFormatVersion
MaxFormatVersion == 2
\* longest chunk mapping handed to write_chunk
MaxChunk == 2
\* longest metadata inventory handed to export_final_chunk
MaxMeta == 2
\* number of method calls made on one writer in SpecApi
MaxCalls == 3
\* most components after the leading one in a path handed to a path mapper
MaxPathLen == 3

(***************************************************************************)
(* Program constants.                                                       *)
(***************************************************************************)
S_IFMT == 61440
MODE_DIR == 493
MODE_FILE == 420
REPO_CONFIG == "[core]\nrepo_version=1\nmode=bare-split-xattrs\n"
\* a range of allowed versions that is one too wide
FORMAT_VERSIONS_wide == 0..2
FORMAT_VERSIONS == 0..1
SYSROOT == <<"sysroot">>
OSTREEDIR == <<"sysroot", "ostree">>
TAR_PATH_PREFIX_V0 == <<".">>

(***************************************************************************)
(* Paths.                                                                   *)
(***************************************************************************)
Path(comps, ext) == [comps |-> comps, ext |-> ext]
NoPath == Path(<<>>, "")
PlainPath(comps) == Path(comps, "")
join(p, name) == Path(p.comps \o <<name>>, "")

IsPrefix(pre, s) == Len(pre) <= Len(s) /\ SubSeq(s, 1, Len(pre)) = pre
Tail_n(s, n) == SubSeq(s, n + 1, Len(s))

\* map_path that joins the remainder to "etc" instead of "./etc"
map_path_bare_etc(p) ==
    IF IsPrefix(<<".", "usr", "etc">>, p.comps)
    THEN Path(<<"etc">> \o Tail_n(p.comps, 3), p.ext)
    ELSE p

\* strip_prefix("./usr/etc") then Utf8Path::new("./etc").join(r)
map_path(p) ==
    IF IsPrefix(<<".", "usr", "etc">>, p.comps)
    THEN Path(<<".", "etc">> \o Tail_n(p.comps, 3), p.ext)
    ELSE p

\* starts_with("usr/etc") then strip_prefix("usr/")
map_path_v1(p) ==
    IF IsPrefix(<<"usr", "etc">>, p.comps)
    THEN Path(Tail_n(p.comps, 1), p.ext)
    ELSE p

\* p.strip_prefix("/").unwrap_or(p), then map_path_v1
path_for_tar_v1(p) ==
    map_path_v1(IF IsPrefix(<<"/">>, p.comps) THEN Path(Tail_n(p.comps, 1), p.ext) ELSE p)

ObjectSuffix(objtype) ==
    CASE objtype = "Commit" -> "commit"
      [] objtype = "CommitMeta" -> "commitmeta"
      [] objtype = "DirTree" -> "dirtree"
      [] objtype = "DirMeta" -> "dirmeta"
      [] objtype = "File" -> "file"

\* "{OSTREEDIR}/repo/objects/{first}/{rest}.{suffix}"
object_path(objtype, checksum) ==
    Path(OSTREEDIR \o <<"repo", "objects", checksum[1], checksum[2]>>, ObjectSuffix(objtype))

\* "{OSTREEDIR}/repo/xattrs/{checksum}"
v0_xattrs_path(checksum) ==
    Path(OSTREEDIR \o <<"repo", "xattrs", checksum[1] \o checksum[2]>>, "")

v0_xattrs_object_path(checksum) ==
    Path(OSTREEDIR \o <<"repo", "objects", checksum[1], checksum[2]>>, "file.xattrs")

v1_xattrs_object_path(checksum) ==
    Path(OSTREEDIR \o <<"repo", "objects", checksum[1], checksum[2]>>, "file-xattrs")

v1_xattrs_link_object_path(checksum) ==
    Path(OSTREEDIR \o <<"repo", "objects", checksum[1], checksum[2]>>, "file-xattrs-link")

\* A symlink target is the sequence of its "/"-separated segments, so that
\* target.contains("//") is an empty segment between two separators.
symlink_is_denormal(target) == \E i \in 2..(Len(target) - 1) : target[i] = ""

(***************************************************************************)
(* The repository: the objects a commit can reach.                          *)
(***************************************************************************)
CommitChecksum == <<"c0", "mm">>
F1 == <<"a1", "f1">>
F2 == <<"a1", "f2">>
F3 == <<"b2", "f3">>
F4 == <<"b2", "f4">>
F5 == <<"d4", "f5">>
F6 == <<"d4", "f6">>
M1 == <<"e5", "m1">>
M2 == <<"e6", "m2">>
T_bin == <<"70", "bin">>
T_etc == <<"70", "etc">>
T_usr == <<"71", "usr">>
T_sys == <<"72", "sys">>
T_var == <<"73", "var">>
T_gone == <<"74", "gone">>
R_full == <<"80", "r1">>
R_twice == <<"80", "r2">>
R_deep == <<"81", "r3">>
R_bad == <<"82", "r4">>
R_gone == <<"83", "r5">>
R_empty == <<"84", "r6">>
R_sysfile == <<"85", "r7">>
R_dev == <<"86", "r8">>

File(ftype, mode, uid, xattrs, target) ==
    [has_meta |-> TRUE, has_xattrs |-> TRUE, has_instream |-> (ftype = "Regular"),
     file_type |-> ftype, mode |-> mode, uid |-> uid, gid |-> uid, size |-> 3,
     symlink_target |-> target, xattrs |-> xattrs]

\* load_file: what the repository holds for each content checksum
Files ==
    (F1 :> File("Regular", 33188, 1000, "xa", <<>>)) @@
    (F2 :> File("Regular", 33261, 0, "xa", <<>>)) @@
    (F3 :> File("SymbolicLink", 41471, 0, "", <<"..", "", "sbin", "chkconfig">>)) @@
    (F4 :> File("SymbolicLink", 41471, 0, "xb", <<"..", "usr", "bin", "a">>)) @@
    (F5 :> [File("Regular", 33188, 0, "", <<>>) EXCEPT !.has_xattrs = FALSE]) @@
    (F6 :> File("Special", 8630, 0, "", <<>>))

\* DirMetaParsed of each dirmeta checksum
DirMetas ==
    (M1 :> [uid |-> 0, gid |-> 0, mode |-> 16877]) @@
    (M2 :> [uid |-> 1000, gid |-> 1000, mode |-> 16832])

\* (files, dirs) of each dirtree checksum; T_gone is named by R_gone and absent;
\* R_sysfile has a symlink named sysroot where R_full has a directory
DirTrees ==
    (T_bin :> [files |-> <<<<"a", F1>>, <<"b", F2>>>>, dirs |-> <<>>]) @@
    (T_etc :> [files |-> <<<<"c", F1>>, <<"l", F3>>>>, dirs |-> <<>>]) @@
    (T_usr :> [files |-> <<>>, dirs |-> <<<<"bin", T_bin, M1>>, <<"etc", T_etc, M2>>>>]) @@
    (T_sys :> [files |-> <<<<"s", F4>>>>, dirs |-> <<>>]) @@
    (T_var :> [files |-> <<>>, dirs |-> <<<<"sysroot", T_sys, M2>>>>]) @@
    (R_full :> [files |-> <<<<"top", F3>>>>,
                dirs |-> <<<<"sysroot", T_sys, M2>>, <<"usr", T_usr, M1>>>>]) @@
    (R_twice :> [files |-> <<>>, dirs |-> <<<<"opt", T_bin, M1>>, <<"srv", T_bin, M2>>>>]) @@
    (R_deep :> [files |-> <<<<"a", F4>>>>, dirs |-> <<<<"var", T_var, M1>>>>]) @@
    (R_bad :> [files |-> <<<<"a", F1>>, <<"bad", F5>>, <<"b", F2>>>>, dirs |-> <<>>]) @@
    (R_gone :> [files |-> <<>>, dirs |-> <<<<"x", T_gone, M1>>>>]) @@
    (R_sysfile :> [files |-> <<<<"sysroot", F4>>>>, dirs |-> <<<<"var", T_bin, M1>>>>]) @@
    (R_dev :> [files |-> <<<<"a", F2>>, <<"null", F6>>>>, dirs |-> <<>>]) @@
    (R_empty :> [files |-> <<>>, dirs |-> <<>>])

Roots == {R_full, R_twice, R_deep, R_bad, R_gone, R_empty, R_sysfile, R_dev}

\* hex(sha256(blob)) of each xattrs blob
Sha256Hex == ("" :> <<"e3", "b0c4">>) @@ ("xa" :> <<"a1", "5a01">>) @@ ("xb" :> <<"9f", "5b02">>)

\* the rendered paths a chunk mapping associates with a content checksum
ChunkPaths ==
    (F1 :> <<PlainPath(<<"/", "usr", "bin", "a">>), PlainPath(<<"/", "usr", "etc", "c">>)>>) @@
    (F2 :> <<PlainPath(<<"usr", "bin", "b">>)>>) @@
    (F5 :> <<PlainPath(<<"/", "bad">>)>>)

\* the content checksums a chunk mapping may hold, in the order the mapping
\* yields its keys (each key once)
ChunkKeys == <<F1, F2, F5>>

\* the objects a metadata inventory (chunking.meta) may name: dirtree and
\* dirmeta objects, present in the repository or not; the commit object is
\* written by append_commit_object, not through the inventory
MetaObjects == {<<"DirTree", R_twice>>, <<"DirMeta", M1>>, <<"DirTree", T_gone>>}

DetachedData == "sig0"

(***************************************************************************)
(* Tar entries and the writer.                                              *)
(***************************************************************************)
Entry(type, path, link, uid, gid, mode, size, data) ==
    [type |-> type, path |-> path, link |-> link, link_literal |-> FALSE, uid |-> uid,
     gid |-> gid, mode |-> mode, size |-> size, data |-> data]

\* Regular entry, root/root 0644, size of the buffer
tar_append_default_data(out, path, buf) ==
    Append(out, Entry("Regular", path, NoPath, 0, 0, MODE_FILE, Len(buf), buf))

\* OstreeTarWriter::new: the fields of a fresh writer
NewWriter(format_version) ==
    [format_version |-> format_version, commit_object |-> "commit", out |-> <<>>,
     wrote_initdirs |-> FALSE,
     wrote_dirtree |-> {}, wrote_dirmeta |-> {}, wrote_content |-> {}, wrote_xattrs |-> {}]

Ok(w) == [ok |-> TRUE, w |-> w]
Err(w) == [ok |-> FALSE, w |-> w]

\* a & !b, bit by bit
RECURSIVE AndNot(_, _)
AndNot(a, b) ==
    IF a = 0 THEN 0
    ELSE (IF a % 2 = 1 /\ b % 2 = 0 THEN 1 ELSE 0) + 2 * AndNot(a \div 2, b \div 2)

\* filter_mode that keeps the file-type bits in every format version
filter_mode_keep(w, mode) == mode

filter_mode(w, mode) == IF w.format_version = 0 THEN mode ELSE AndNot(mode, S_IFMT)

\* Directory entry, root/root 0755
append_default_dir(w, path) ==
    [w EXCEPT !.out = Append(@, Entry("Directory", path, NoPath, 0, 0, MODE_DIR, 0, ""))]

append_default_data(w, path, buf) ==
    [w EXCEPT !.out = tar_append_default_data(@, path, buf)]

\* Link entry, root/root 0644
append_default_hardlink(w, path, link_target) ==
    [w EXCEPT !.out = Append(@, Entry("Link", path, link_target, 0, 0, MODE_FILE, 0, ""))]

HexDigits == <<"0", "1", "2", "3", "4", "5", "6", "7", "8", "9", "a", "b", "c", "d", "e", "f">>
\* format!("{:02x}", d)
Hex2(d) == HexDigits[(d \div 16) + 1] \o HexDigits[(d % 16) + 1]

objdir == OSTREEDIR \o <<"repo", "objects">>
\* objdir.ancestors() reversed, without "/" and ""
parent_dirs == [i \in 1..Len(objdir) |-> PlainPath(SubSeq(objdir, 1, i))]
\* for d in 0..=0xFF
object_subdirs == [d \in 1..256 |-> PlainPath(objdir \o <<Hex2(d - 1)>>)]
subdirs ==
    <<PlainPath(OSTREEDIR \o <<"repo", "extensions">>),
      PlainPath(OSTREEDIR \o <<"repo", "refs">>),
      PlainPath(OSTREEDIR \o <<"repo", "refs", "heads">>),
      PlainPath(OSTREEDIR \o <<"repo", "refs", "mirrors">>),
      PlainPath(OSTREEDIR \o <<"repo", "refs", "remotes">>),
      PlainPath(OSTREEDIR \o <<"repo", "state">>),
      PlainPath(OSTREEDIR \o <<"repo", "tmp">>),
      PlainPath(OSTREEDIR \o <<"repo", "tmp", "cache">>)>>

DefaultDir(path) == Entry("Directory", path, NoPath, 0, 0, MODE_DIR, 0, "")

\* the directories write_repo_structure emits, in order
RepoStructureDirs(format_version) ==
    LET dirs == parent_dirs \o object_subdirs \o subdirs \o
                (IF format_version = 0
                 THEN <<PlainPath(OSTREEDIR \o <<"repo", "xattrs">>)>> ELSE <<>>)
    IN  [i \in 1..Len(dirs) |-> DefaultDir(dirs[i])]

RepoStructureV0 == RepoStructureDirs(0)
RepoStructureV1 == RepoStructureDirs(1)
RepoStructureVn == RepoStructureDirs(2)

ConfigPath(format_version) ==
    IF format_version = 0 THEN PlainPath(SYSROOT \o <<"config">>)
    ELSE PlainPath(OSTREEDIR \o <<"repo", "config">>)

\* write_repo_structure without the wrote_initdirs early return
write_repo_structure_again(w) ==
    LET dirs == IF w.format_version = 0 THEN RepoStructureV0 ELSE RepoStructureV1
    IN  Ok([append_default_data([w EXCEPT !.out = @ \o dirs],
                                ConfigPath(w.format_version), REPO_CONFIG)
              EXCEPT !.wrote_initdirs = TRUE])

write_repo_structure(w) ==
    IF w.wrote_initdirs THEN Ok(w)
    ELSE LET dirs == CASE w.format_version = 0 -> RepoStructureV0
                       [] w.format_version = 1 -> RepoStructureV1
                       [] OTHER -> RepoStructureVn
             w1 == [w EXCEPT !.out = @ \o dirs]
         IN  IF w.format_version \notin {0, 1} THEN Err(w1)
             ELSE Ok([append_default_data(w1, ConfigPath(w.format_version), REPO_CONFIG)
                        EXCEPT !.wrote_initdirs = TRUE])

\* the dedup set `append` consults for an object type ("" for none)
DedupField(objtype) ==
    CASE objtype = "DirTree" -> "wrote_dirtree"
      [] objtype = "DirMeta" -> "wrote_dirmeta"
      [] OTHER -> ""

\* append that never consults its dedup set
append_nodedup(w, objtype, checksum, data) ==
    LET f == DedupField(objtype)
        w1 == IF f /= "" THEN [w EXCEPT ![f] = @ \cup {checksum}] ELSE w
    IN  append_default_data(w1, object_path(objtype, checksum), data)

append(w, objtype, checksum, data) ==
    LET f == DedupField(objtype)
    IN  IF f /= "" /\ checksum \in w[f] THEN w
        ELSE LET w1 == IF f /= "" THEN [w EXCEPT ![f] = @ \cup {checksum}] ELSE w
             IN  append_default_data(w1, object_path(objtype, checksum), data)

\* append_xattrs that writes neither blob nor link when the blob was written
\* before
append_xattrs_dedup_link(w, checksum, xattrs) ==
    IF xattrs = "" /\ w.format_version = 0 THEN [ok |-> TRUE, w |-> w, wrote |-> FALSE]
    ELSE LET xattrs_checksum == Sha256Hex[xattrs]
             path == IF w.format_version = 0 THEN v0_xattrs_path(xattrs_checksum)
                     ELSE v1_xattrs_object_path(xattrs_checksum)
             link == IF w.format_version = 0 THEN v0_xattrs_object_path(checksum)
                     ELSE v1_xattrs_link_object_path(checksum)
         IN  IF xattrs_checksum \in w.wrote_xattrs THEN [ok |-> TRUE, w |-> w, wrote |-> TRUE]
             ELSE [ok |-> TRUE, wrote |-> TRUE,
                   w |-> append_default_hardlink(
                             append_default_data(
                                 [w EXCEPT !.wrote_xattrs = @ \cup {xattrs_checksum}],
                                 path, xattrs),
                             link, path)]

\* returns the writer and whether content was written
append_xattrs(w, checksum, xattrs) ==
    IF xattrs = "" /\ w.format_version = 0 THEN [ok |-> TRUE, w |-> w, wrote |-> FALSE]
    ELSE LET xattrs_checksum == Sha256Hex[xattrs]
             path == IF w.format_version = 0 THEN v0_xattrs_path(xattrs_checksum)
                     ELSE v1_xattrs_object_path(xattrs_checksum)
             link == IF w.format_version = 0 THEN v0_xattrs_object_path(checksum)
                     ELSE v1_xattrs_link_object_path(checksum)
             w1 == IF xattrs_checksum \notin w.wrote_xattrs
                   THEN append_default_data(
                            [w EXCEPT !.wrote_xattrs = @ \cup {xattrs_checksum}], path, xattrs)
                   ELSE w
         IN  IF w.format_version \notin {0, 1} THEN [ok |-> FALSE, w |-> w, wrote |-> FALSE]
             ELSE [ok |-> TRUE, w |-> append_default_hardlink(w1, link, path), wrote |-> TRUE]

Header(uid, gid, mode) == [uid |-> uid, gid |-> gid, mode |-> mode]
NoHeader == Header(0, 0, 0)

\* the entry of a content object: a regular file, or a symlink whose link name
\* is its target, set literally when the target is denormal
ContentEntry(path, h, meta) ==
    IF meta.has_instream
    THEN Entry("Regular", path, NoPath, h.uid, h.gid, h.mode, meta.size, "content")
    ELSE [Entry("Symlink", path, PlainPath(meta.symlink_target), h.uid, h.gid, h.mode, 0, "")
            EXCEPT !.link_literal = symlink_is_denormal(meta.symlink_target)]

\* append_content that exports the xattrs after the object they refer to
append_content_xattrs_last(w, checksum) ==
    LET path == object_path("File", checksum)
        meta == Files[checksum]
        h == Header(meta.uid, meta.gid, filter_mode(w, meta.mode))
    IN  IF ~meta.has_meta \/ ~meta.has_xattrs
        THEN [ok |-> FALSE, w |-> w, path |-> path, h |-> NoHeader]
        ELSE IF checksum \in w.wrote_content THEN [ok |-> TRUE, w |-> w, path |-> path, h |-> h]
        ELSE LET w1 == [w EXCEPT !.wrote_content = @ \cup {checksum},
                                 !.out = Append(@, ContentEntry(path, h, meta))]
             IN  [ok |-> TRUE, path |-> path, h |-> h,
                  w |-> append_xattrs(w1, checksum, meta.xattrs).w]

\* returns (path, target_header) of the object, written now unless written before
append_content(w, checksum) ==
    LET path == object_path("File", checksum)
        fail(x) == [ok |-> FALSE, w |-> x, path |-> path, h |-> NoHeader]
    IN  IF checksum \notin DOMAIN Files THEN fail(w)
        ELSE LET meta == Files[checksum] IN
        IF ~meta.has_meta \/ ~meta.has_xattrs THEN fail(w)
        ELSE LET h == Header(meta.uid, meta.gid, filter_mode(w, meta.mode)) IN
        IF checksum \in w.wrote_content THEN [ok |-> TRUE, w |-> w, path |-> path, h |-> h]
        ELSE LET w1 == [w EXCEPT !.wrote_content = @ \cup {checksum}]
                 x == append_xattrs(w1, checksum, meta.xattrs)
             IN  IF ~x.ok THEN fail(x.w)
                 ELSE IF meta.has_instream /\ meta.file_type /= "Regular" THEN fail(x.w)
                 ELSE IF ~meta.has_instream /\ meta.file_type /= "SymbolicLink" THEN fail(x.w)
                 ELSE [ok |-> TRUE, path |-> path, h |-> h,
                       w |-> [x.w EXCEPT !.out = Append(@, ContentEntry(path, h, meta))]]

\* Directory entry with the owner and filtered mode of a dirmeta
append_dir(w, dirpath, meta) ==
    [w EXCEPT !.out = Append(@, Entry("Directory", dirpath, NoPath, meta.uid, meta.gid,
                                       filter_mode(w, meta.mode), 0, ""))]

\* append_content_hardlink that writes a default hardlink, owned by root
append_content_hardlink_root(w, srcpath, h, dest) ==
    [w EXCEPT !.out = Append(@, Entry("Link", dest, srcpath, 0, 0, h.mode, 0, ""))]

\* Link entry at dest to srcpath, with the header append_content returned
append_content_hardlink(w, srcpath, h, dest) ==
    [w EXCEPT !.out = Append(@, Entry("Link", dest, srcpath, h.uid, h.gid, h.mode, 0, ""))]

(***************************************************************************)
(* The steps of the export drivers, as functions of the writer.             *)
(***************************************************************************)
\* append_commit_object that writes the detached metadata before the commit
append_commit_object_meta_first(w, has_detached) ==
    LET w1 == IF has_detached THEN append(w, "CommitMeta", CommitChecksum, DetachedData) ELSE w
    IN  append(w1, "Commit", CommitChecksum, "commit")

\* the commit object, then its detached metadata when the repository has one
append_commit_object(w, has_detached) ==
    LET w1 == append(w, "Commit", CommitChecksum, "commit")
    IN  IF has_detached THEN append(w1, "CommitMeta", CommitChecksum, DetachedData) ELSE w1

\* write_commit that writes the root dirmeta object before the commit object
write_commit_head_dirmeta_first(w, metadata_checksum, has_detached) ==
    LET w1 == append_dir(w, PlainPath(TAR_PATH_PREFIX_V0), DirMetas[metadata_checksum])
        r == write_repo_structure(w1)
    IN  Ok(append_commit_object(append(r.w, "DirMeta", metadata_checksum, "dirmeta"),
                                has_detached))

\* write_commit up to the call of append_dirtree: root directory, scaffold,
\* commit object, root dirmeta
write_commit_head(w, metadata_checksum, has_detached) ==
    IF metadata_checksum \notin DOMAIN DirMetas THEN Err(w)
    ELSE LET w1 == append_dir(w, PlainPath(TAR_PATH_PREFIX_V0), DirMetas[metadata_checksum])
             r == write_repo_structure(w1)
         IN  IF ~r.ok THEN r
             ELSE Ok(append(append_commit_object(r.w, has_detached),
                            "DirMeta", metadata_checksum, "dirmeta"))

\* gio::NONE_CANCELLABLE: no cancellable
NONE_CANCELLABLE == [some |-> FALSE]

\* if let Some(c) = cancellable { c.set_error_if_cancelled()? }: whether the
\* check returns the cancellation error, given the state of the caller's handle
set_error_if_cancelled(cancellable, is_cancelled) == cancellable.some /\ is_cancelled

\* append_dirtree from its start to the cancellation check: load the dirtree
\* and emit its object
append_dirtree_enter(w, checksum) ==
    IF checksum \notin DOMAIN DirTrees THEN Err(w)
    ELSE Ok(append(w, "DirTree", checksum, "dirtree"))

\* the file loop writing no hardlink for an object already in the stream
append_dirtree_file_dedup_link(w, dirpath, file) ==
    LET c == append_content(w, file[2])
    IN  IF ~c.ok THEN Err(c.w)
        ELSE IF file[2] \in w.wrote_content THEN Ok(c.w)
        ELSE Ok(append_content_hardlink(c.w, c.path, c.h, map_path(join(dirpath, file[1]))))

\* the file loop with the hardlink written before the object it links to
append_dirtree_file_link_first(w, dirpath, file) ==
    LET w1 == append_content_hardlink(w, object_path("File", file[2]), NoHeader,
                                      map_path(join(dirpath, file[1])))
        c == append_content(w1, file[2])
    IN  IF ~c.ok THEN Err(c.w) ELSE Ok(c.w)

\* the file loop going on to the next file when append_content fails
append_dirtree_file_ignore_error(w, dirpath, file) ==
    LET c == append_content(w, file[2])
    IN  IF ~c.ok THEN Ok(c.w)
        ELSE Ok(append_content_hardlink(c.w, c.path, c.h, map_path(join(dirpath, file[1]))))

\* one iteration of `for file in files`
append_dirtree_file(w, dirpath, file) ==
    LET c == append_content(w, file[2])
    IN  IF ~c.ok THEN Err(c.w)
        ELSE Ok(append_content_hardlink(c.w, c.path, c.h, map_path(join(dirpath, file[1]))))

\* the subdirectory loop going down into a root-level sysroot as well
append_dirtree_dir_no_skip(w, dirpath, item, is_root) ==
    LET subpath == map_path(join(dirpath, item[1]))
    IN  IF item[3] \notin DOMAIN DirMetas
        THEN [ok |-> FALSE, w |-> w, descend |-> FALSE, subpath |-> subpath]
        ELSE [ok |-> TRUE, descend |-> TRUE, subpath |-> subpath,
              w |-> append_dir(append(w, "DirMeta", item[3], "dirmeta"), subpath,
                               DirMetas[item[3]])]

\* the subdirectory loop skipping a subdirectory named sysroot at every level
append_dirtree_dir_skip_any_level(w, dirpath, item, is_root) ==
    LET subpath == map_path(join(dirpath, item[1]))
    IN  IF item[3] \notin DOMAIN DirMetas
        THEN [ok |-> FALSE, w |-> w, descend |-> FALSE, subpath |-> subpath]
        ELSE LET w1 == append(w, "DirMeta", item[3], "dirmeta")
             IN  IF <<item[1]>> = SYSROOT
                 THEN [ok |-> TRUE, w |-> w1, descend |-> FALSE, subpath |-> subpath]
                 ELSE [ok |-> TRUE, w |-> append_dir(w1, subpath, DirMetas[item[3]]),
                       descend |-> TRUE, subpath |-> subpath]

\* the subdirectory loop writing the directory entry before the dirmeta object
append_dirtree_dir_entry_first(w, dirpath, item, is_root) ==
    LET subpath == map_path(join(dirpath, item[1]))
    IN  IF item[3] \notin DOMAIN DirMetas
        THEN [ok |-> FALSE, w |-> w, descend |-> FALSE, subpath |-> subpath]
        ELSE IF is_root /\ <<item[1]>> = SYSROOT
        THEN [ok |-> TRUE, w |-> append(w, "DirMeta", item[3], "dirmeta"),
              descend |-> FALSE, subpath |-> subpath]
        ELSE [ok |-> TRUE, descend |-> TRUE, subpath |-> subpath,
              w |-> append(append_dir(w, subpath, DirMetas[item[3]]),
                           "DirMeta", item[3], "dirmeta")]

\* one iteration of `for item in dirs`, up to the recursive call; descend tells
\* whether the recursive call is made, on subpath
append_dirtree_dir(w, dirpath, item, is_root) ==
    LET subpath == map_path(join(dirpath, item[1]))
    IN  IF item[3] \notin DOMAIN DirMetas
        THEN [ok |-> FALSE, w |-> w, descend |-> FALSE, subpath |-> subpath]
        ELSE LET w1 == append(w, "DirMeta", item[3], "dirmeta")
             IN  IF is_root /\ <<item[1]>> = SYSROOT
                 THEN [ok |-> TRUE, w |-> w1, descend |-> FALSE, subpath |-> subpath]
                 ELSE [ok |-> TRUE, w |-> append_dir(w1, subpath, DirMetas[item[3]]),
                       descend |-> TRUE, subpath |-> subpath]

RECURSIVE HardlinkAll(_, _, _, _, _)
\* for path in paths.iter(): one hardlink at path_for_tar_v1(path)
HardlinkAll(w, objpath, h, paths, i) ==
    IF i > Len(paths) THEN w
    ELSE HardlinkAll(append_content_hardlink(w, objpath, h, path_for_tar_v1(paths[i])),
                     objpath, h, paths, i + 1)

\* the loop of write_chunk linking the object at its first path only
write_chunk_item_first_path(w, checksum, paths) ==
    LET c == append_content(w, checksum)
    IN  IF ~c.ok THEN Err(c.w) ELSE Ok(HardlinkAll(c.w, c.path, c.h, SubSeq(paths, 1, 1), 1))

\* one iteration of the loop of write_chunk
write_chunk_item(w, checksum, paths) ==
    LET c == append_content(w, checksum)
    IN  IF ~c.ok THEN Err(c.w) ELSE Ok(HardlinkAll(c.w, c.path, c.h, paths, 1))

\* one iteration of the inventory loop of export_final_chunk
export_final_chunk_meta(w, objtype, checksum) ==
    IF (objtype = "DirTree" /\ checksum \notin DOMAIN DirTrees)
       \/ (objtype = "DirMeta" /\ checksum \notin DOMAIN DirMetas)
    THEN Err(w)
    ELSE Ok(append(w, objtype, checksum, IF objtype = "DirTree" THEN "dirtree" ELSE "dirmeta"))

\* commit.7, the root dirmeta of the commit
RootDirMeta == M1

\* ExportOptions::default(): the derived Default of a u32 field
ExportOptions_default == [format_version |-> 0]

(***************************************************************************)
(* State.                                                                   *)
(***************************************************************************)
VARIABLES
    mode,          \* the entry point running
    repo,          \* the commit of the repository: has_commit, root, has_detached
    options,       \* the ExportOptions handed to export_commit
    writer,        \* the OstreeTarWriter
    pc,            \* position of the running entry point
    stack,         \* the active calls of append_dirtree, innermost last
    meta,          \* the inventory items export_final_chunk has consumed
    chunk,         \* the chunk keys write_chunk has consumed
    src,           \* reinjection: the entries of the source archive
    pos,           \* reinjection: how many source entries the iterator yielded
    dest,          \* reinjection: the entries written to the destination
    detached_buf,  \* reinjection: the replacement buffer, [some, buf]
    cancelled,     \* whether the caller has cancelled its cancellable
    calls,         \* SpecApi: the methods called on the writer so far
    arg,           \* the argument of the function called directly: the path
                   \* handed to a path mapper, (checksum, xattrs) of append_xattrs
    mapped,        \* the function called directly and what it returned
    visits         \* how many times the running export has called append_dirtree

vars == <<mode, repo, options, writer, pc, stack, meta, chunk,
          src, pos, dest, detached_buf, cancelled, calls, arg, mapped, visits>>

exportVars == <<mode, repo, options, writer, stack, meta, chunk>>
reinjectVars == <<src, pos, dest, detached_buf, cancelled>>
pathVars == <<arg, mapped>>

NoBuf == [some |-> FALSE, buf |-> ""]
\* no writer: before OstreeTarWriter::new and after the run
NoWriter == [NewWriter(0) EXCEPT !.commit_object = ""]
NoRepo == [has_commit |-> FALSE, root |-> R_empty, has_detached |-> FALSE]
NoMapped == [fn |-> "", ok |-> TRUE, path |-> NoPath]

Frame(dirpath, checksum, is_root) ==
    [dirpath |-> dirpath, checksum |-> checksum, is_root |-> is_root,
     entered |-> FALSE, pos |-> 0]

Init ==
    /\ mode \in {"export_commit", "export_chunk", "export_final_chunk"}
    /\ repo \in [has_commit : BOOLEAN, root : Roots, has_detached : BOOLEAN]
    /\ repo.has_commit \/ (repo.root = R_empty /\ ~repo.has_detached)
    /\ options \in [format_version : 0..MaxFormatVersion]
    /\ mode /= "export_commit" => options = ExportOptions_default /\ repo.root = R_empty
    /\ writer = NoWriter
    /\ pc = "start"
    /\ stack = <<>>
    /\ meta = <<>>
    /\ chunk = <<>>
    /\ src = <<>>
    /\ pos = 0
    /\ dest = <<>>
    /\ detached_buf = NoBuf
    /\ cancelled = FALSE
    /\ calls = <<>>
    /\ arg = NoPath
    /\ mapped = NoMapped
    /\ visits = 0

\* the format version each entry point constructs its writer with
FormatVersionOf(m, opts) ==
    CASE m = "export_commit" -> opts.format_version
      [] m = "export_chunk" -> ExportOptions_default.format_version
      [] m = "export_final_chunk" -> 1

\* OstreeTarWriter::new
New ==
    /\ pc = "start"
    /\ LET v == FormatVersionOf(mode, options)
       IN  IF v \notin FORMAT_VERSIONS \/ ~repo.has_commit
           THEN pc' = "failed" /\ UNCHANGED writer
           ELSE /\ writer' = NewWriter(v)
                /\ pc' = IF mode = "export_commit" THEN "write_commit" ELSE "scaffold"
    /\ UNCHANGED <<mode, repo, options, stack, meta, chunk, calls>>
    /\ UNCHANGED reinjectVars
    /\ UNCHANGED pathVars
    /\ UNCHANGED visits

\* write_commit, up to the call of append_dirtree on the root
WriteCommit ==
    /\ pc = "write_commit"
    /\ LET r == write_commit_head(writer, RootDirMeta, repo.has_detached)
       IN  /\ writer' = r.w
           /\ IF r.ok
              THEN /\ pc' = "walk"
                   /\ stack' = <<Frame(PlainPath(TAR_PATH_PREFIX_V0), repo.root, TRUE)>>
              ELSE pc' = "failed" /\ UNCHANGED stack
    /\ UNCHANGED <<mode, repo, options, meta, chunk, calls>>
    /\ UNCHANGED reinjectVars
    /\ UNCHANGED pathVars
    /\ UNCHANGED visits

Top == stack[Len(stack)]
SetTop(f) == [stack EXCEPT ![Len(stack)] = f]

\* append_dirtree: load the dirtree, emit its object, check for cancellation;
\* the cancellable is the one write_commit hands down, gio::NONE_CANCELLABLE
AppendDirtreeEnter ==
    /\ pc = "walk" /\ ~Top.entered
    /\ LET r == append_dirtree_enter(writer, Top.checksum)
           cancellable == NONE_CANCELLABLE
       IN  /\ writer' = r.w
           /\ IF r.ok /\ ~set_error_if_cancelled(cancellable, cancelled)
              THEN pc' = pc /\ stack' = SetTop([Top EXCEPT !.entered = TRUE])
              ELSE pc' = "failed" /\ UNCHANGED stack
    /\ UNCHANGED <<mode, repo, options, meta, chunk, calls>>
    /\ UNCHANGED reinjectVars
    /\ UNCHANGED pathVars
    /\ visits' = visits + 1

\* append_dirtree: the next file of the dirtree
AppendDirtreeFile ==
    /\ pc = "walk" /\ Top.entered
    /\ Top.pos < Len(DirTrees[Top.checksum].files)
    /\ LET r == append_dirtree_file(writer, Top.dirpath,
                                    DirTrees[Top.checksum].files[Top.pos + 1])
       IN  /\ writer' = r.w
           /\ IF r.ok THEN pc' = pc /\ stack' = SetTop([Top EXCEPT !.pos = @ + 1])
              ELSE pc' = "failed" /\ UNCHANGED stack
    /\ UNCHANGED <<mode, repo, options, meta, chunk, calls>>
    /\ UNCHANGED reinjectVars
    /\ UNCHANGED pathVars
    /\ UNCHANGED visits

\* append_dirtree: the next subdirectory of the dirtree, and the recursive call
AppendDirtreeDir ==
    /\ pc = "walk" /\ Top.entered
    /\ LET t == DirTrees[Top.checksum]
           k == Top.pos - Len(t.files)
       IN  /\ k >= 0 /\ k < Len(t.dirs)
           /\ LET r == append_dirtree_dir(writer, Top.dirpath, t.dirs[k + 1], Top.is_root)
                  up == SetTop([Top EXCEPT !.pos = @ + 1])
              IN  /\ writer' = r.w
                  /\ IF ~r.ok THEN pc' = "failed" /\ UNCHANGED stack
                     ELSE /\ pc' = pc
                          /\ stack' = IF r.descend
                                      THEN Append(up, Frame(r.subpath, t.dirs[k + 1][2], FALSE))
                                      ELSE up
    /\ UNCHANGED <<mode, repo, options, meta, chunk, calls>>
    /\ UNCHANGED reinjectVars
    /\ UNCHANGED pathVars
    /\ UNCHANGED visits

\* append_dirtree returns; the outermost return ends write_commit
AppendDirtreeReturn ==
    /\ pc = "walk" /\ Top.entered
    /\ Top.pos = Len(DirTrees[Top.checksum].files) + Len(DirTrees[Top.checksum].dirs)
    /\ stack' = SubSeq(stack, 1, Len(stack) - 1)
    /\ pc' = IF Len(stack) = 1 THEN "done" ELSE pc
    /\ UNCHANGED <<mode, repo, options, writer, meta, chunk, calls>>
    /\ UNCHANGED reinjectVars
    /\ UNCHANGED pathVars
    /\ UNCHANGED visits

\* export_chunk / export_final_chunk: writer.write_repo_structure()
WriteRepoStructure ==
    /\ pc = "scaffold"
    /\ LET r == write_repo_structure(writer)
       IN  /\ writer' = r.w
           /\ pc' = IF ~r.ok THEN "failed"
                    ELSE IF mode = "export_chunk" THEN "chunk" ELSE "commit_object"
    /\ UNCHANGED <<mode, repo, options, stack, meta, chunk, calls>>
    /\ UNCHANGED reinjectVars
    /\ UNCHANGED pathVars
    /\ UNCHANGED visits

\* export_final_chunk: writer.append_commit_object()
AppendCommitObject ==
    /\ pc = "commit_object"
    /\ writer' = append_commit_object(writer, repo.has_detached)
    /\ pc' = "meta"
    /\ UNCHANGED <<mode, repo, options, stack, meta, chunk, calls>>
    /\ UNCHANGED reinjectVars
    /\ UNCHANGED pathVars
    /\ UNCHANGED visits

\* export_final_chunk: the next object of chunking.meta
ExportFinalChunkMeta ==
    /\ pc = "meta" /\ Len(meta) < MaxMeta
    /\ \E m \in MetaObjects :
         LET r == export_final_chunk_meta(writer, m[1], m[2])
         IN  /\ writer' = r.w
             /\ meta' = Append(meta, m)
             /\ pc' = IF r.ok THEN pc ELSE "failed"
    /\ UNCHANGED <<mode, repo, options, stack, chunk, calls>>
    /\ UNCHANGED reinjectVars
    /\ UNCHANGED pathVars
    /\ UNCHANGED visits

\* export_final_chunk: chunking.meta is exhausted
ExportFinalChunkMetaEnd ==
    /\ pc = "meta"
    /\ pc' = "chunk"
    /\ UNCHANGED exportVars /\ UNCHANGED calls
    /\ UNCHANGED reinjectVars
    /\ UNCHANGED pathVars
    /\ UNCHANGED visits

\* the index in ChunkKeys of the last key consumed
LastKey == IF chunk = <<>> THEN 0 ELSE CHOOSE k \in 1..Len(ChunkKeys) : ChunkKeys[k] = chunk[Len(chunk)]

\* write_chunk: the next (checksum, paths) of the mapping, in key order
WriteChunkItem ==
    /\ pc = "chunk" /\ Len(chunk) < MaxChunk
    /\ \E k \in (LastKey + 1)..Len(ChunkKeys) :
         LET r == write_chunk_item(writer, ChunkKeys[k], ChunkPaths[ChunkKeys[k]])
         IN  /\ writer' = r.w
             /\ chunk' = Append(chunk, ChunkKeys[k])
             /\ pc' = IF r.ok THEN pc ELSE "failed"
    /\ UNCHANGED <<mode, repo, options, stack, meta, calls>>
    /\ UNCHANGED reinjectVars
    /\ UNCHANGED pathVars
    /\ UNCHANGED visits

\* write_chunk: the mapping is exhausted
WriteChunkEnd ==
    /\ pc = "chunk"
    /\ pc' = "done"
    /\ UNCHANGED exportVars /\ UNCHANGED calls
    /\ UNCHANGED reinjectVars
    /\ UNCHANGED pathVars
    /\ UNCHANGED visits

\* a write to the tar builder returns an io::Error, which `?` hands up to the
\* caller of the export
WriteFails ==
    /\ pc \in {"write_commit", "walk", "scaffold", "commit_object", "meta", "chunk"}
    /\ pc' = "failed"
    /\ UNCHANGED exportVars /\ UNCHANGED calls
    /\ UNCHANGED reinjectVars
    /\ UNCHANGED pathVars
    /\ UNCHANGED visits

ExportNext ==
    \/ New
    \/ WriteCommit
    \/ AppendDirtreeEnter
    \/ AppendDirtreeFile
    \/ AppendDirtreeDir
    \/ AppendDirtreeReturn
    \/ WriteRepoStructure
    \/ AppendCommitObject
    \/ ExportFinalChunkMeta
    \/ ExportFinalChunkMetaEnd
    \/ WriteChunkItem
    \/ WriteChunkEnd
    \/ WriteFails

(***************************************************************************)
(* Reinjection of the detached metadata.                                    *)
(***************************************************************************)
MetadataSuffixes == {"commit", "commitmeta", "dirtree", "dirmeta", "file"}
ObjectTypeOf(suffix) ==
    CASE suffix = "commit" -> "Commit"
      [] suffix = "commitmeta" -> "CommitMeta"
      [] suffix = "dirtree" -> "DirTree"
      [] suffix = "dirmeta" -> "DirMeta"
      [] suffix = "file" -> "File"

\* Importer::parse_metadata_entry: (checksum, objtype) of an object path: the
\* parent directory name has two characters, the file name is the rest of the
\* checksum, the suffix names a known object type
parse_metadata_entry(path) ==
    LET n == Len(path.comps)
    IN  IF n >= 2 /\ Len(path.comps[n - 1]) = 2 /\ path.ext \in MetadataSuffixes
        THEN [ok |-> TRUE, checksum |-> <<path.comps[n - 1], path.comps[n]>>,
              objtype |-> ObjectTypeOf(path.ext)]
        ELSE [ok |-> FALSE, checksum |-> <<"", "">>, objtype |-> ""]

\* tar::write::copy_entry: the entry is written to the destination as it is
copy_entry(entry, d) == Append(d, entry)

\* header.entry_type() == Regular && path.ends_with(".commit")
IsCommitEntry(entry) == entry.type = "Regular" /\ entry.path.ext = "commit"

\* the commit entry with the buffer injected and the commit entry not copied
reinject_commit_entry_lose_commit(d, s, p, buf) ==
    LET parsed == parse_metadata_entry(s[p + 1].path)
    IN  [ok |-> TRUE, pos |-> p + 1,
         dest |-> IF buf.some
                  THEN tar_append_default_data(d, object_path("CommitMeta", parsed.checksum), buf.buf)
                  ELSE d]

\* the commit entry with the buffer injected twice
reinject_commit_entry_twice(d, s, p, buf) ==
    LET parsed == parse_metadata_entry(s[p + 1].path)
        d1 == copy_entry(s[p + 1], d)
        d2 == IF buf.some
              THEN tar_append_default_data(d1, object_path("CommitMeta", parsed.checksum), buf.buf)
              ELSE d1
    IN  [ok |-> TRUE, pos |-> p + 1,
         dest |-> IF buf.some
                  THEN tar_append_default_data(d2, object_path("CommitMeta", parsed.checksum), buf.buf)
                  ELSE d2]

\* the commit entry the first loop found (the entry after position p): parse
\* its path, copy it, inject the buffer
reinject_commit_entry(d, s, p, buf) ==
    LET commit_ent == s[p + 1]
        parsed == parse_metadata_entry(commit_ent.path)
        d1 == copy_entry(commit_ent, d)
    IN  IF ~parsed.ok THEN [ok |-> FALSE, dest |-> d, pos |-> p + 1]
        ELSE [ok |-> TRUE, pos |-> p + 1,
              dest |-> IF buf.some
                       THEN tar_append_default_data(
                                d1, object_path("CommitMeta", parsed.checksum), buf.buf)
                       ELSE d1]

\* the entry after the commit copied whatever its type
reinject_next_entry_keep_next(d, s, p) ==
    IF p >= Len(s) THEN [ok |-> FALSE, dest |-> d, pos |-> p]
    ELSE [ok |-> TRUE, pos |-> p + 1, dest |-> copy_entry(s[p + 1], d)]

\* the entry after the commit taken as optional
reinject_next_entry_optional(d, s, p) ==
    IF p >= Len(s) THEN [ok |-> TRUE, dest |-> d, pos |-> p]
    ELSE LET next == parse_metadata_entry(s[p + 1].path)
         IN  IF ~next.ok THEN [ok |-> FALSE, dest |-> d, pos |-> p + 1]
             ELSE [ok |-> TRUE, pos |-> p + 1,
                   dest |-> IF next.objtype /= "CommitMeta" THEN copy_entry(s[p + 1], d) ELSE d]

\* the entry after the commit (the entry after position p), taken from the
\* iterator with no cancellation check: it must exist and parse as a metadata
\* object; it is dropped when it is a CommitMeta, copied otherwise
reinject_next_entry(d, s, p) ==
    IF p >= Len(s) THEN [ok |-> FALSE, dest |-> d, pos |-> p]
    ELSE LET next_ent == s[p + 1]
             next == parse_metadata_entry(next_ent.path)
         IN  IF ~next.ok THEN [ok |-> FALSE, dest |-> d, pos |-> p + 1]
             ELSE [ok |-> TRUE, pos |-> p + 1,
                   dest |-> IF next.objtype /= "CommitMeta" THEN copy_entry(next_ent, d) ELSE d]

\* what a loop of copy_entry calls writes for the entries from..to of s, each
\* entry by its own call
CopyEntries(d, s, from, to) ==
    d \o [i \in 1..(to - from + 1) |-> copy_entry(s[from + i - 1], <<>>)[1]]

\* the first loop run to its end: the entries before the commit entry are
\* copied; found tells whether the loop ended on a commit entry, at pos + 1
CopyUntilCommit(d, s) ==
    LET commits == {i \in 1..Len(s) : IsCommitEntry(s[i])}
    IN  IF commits = {} THEN [found |-> FALSE, dest |-> CopyEntries(d, s, 1, Len(s)), pos |-> Len(s)]
        ELSE LET ci == CHOOSE i \in commits : \A j \in commits : i <= j
             IN  [found |-> TRUE, dest |-> CopyEntries(d, s, 1, ci - 1), pos |-> ci - 1]

\* the second loop run to its end: every entry after position p is copied
CopyRemaining(d, s, p) == CopyEntries(d, s, p + 1, Len(s))

\* reinject_detached_metadata called with no cancellable: the whole function
reinject_detached_metadata(s, buf) ==
    LET scan == CopyUntilCommit(<<>>, s)
    IN  IF ~scan.found THEN [ok |-> FALSE, dest |-> scan.dest, pos |-> scan.pos]
        ELSE LET c == reinject_commit_entry(scan.dest, s, scan.pos, buf)
                 n == reinject_next_entry(c.dest, s, c.pos)
             IN  IF ~c.ok THEN c
                 ELSE IF ~n.ok THEN n
                 ELSE [ok |-> TRUE, dest |-> CopyRemaining(n.dest, s, n.pos), pos |-> Len(s)]

\* detached_buf: None, or Some of a buffer
BufChoices == {NoBuf, [some |-> TRUE, buf |-> "buf1"]}

\* update_detached_metadata on the stream a successful export produced; the
\* export run is over and its writer dropped
UpdateDetachedMetadata ==
    /\ pc = "done"
    /\ mode' = "update_detached_metadata"
    /\ src' = writer.out
    /\ pos' = 0
    /\ dest' = <<>>
    /\ detached_buf' \in BufChoices
    /\ cancelled' = FALSE
    /\ writer' = NoWriter
    /\ repo' = NoRepo
    /\ options' = ExportOptions_default
    /\ meta' = <<>>
    /\ chunk' = <<>>
    /\ pc' = "scan"
    /\ UNCHANGED <<stack, calls>>
    /\ UNCHANGED pathVars
    /\ visits' = 0

\* the caller cancels its cancellable while a full export or a reinjection runs
Cancel ==
    /\ pc \in {"write_commit", "walk", "scan", "next", "rest"}
    /\ ~cancelled
    /\ cancelled' = TRUE
    /\ UNCHANGED <<src, pos, dest, detached_buf, pc, calls>>
    /\ UNCHANGED exportVars
    /\ UNCHANGED pathVars
    /\ UNCHANGED visits

\* either loop: set_error_if_cancelled fails on the entry the iterator yielded
ReinjectCancelled ==
    /\ pc \in {"scan", "rest"}
    /\ pos < Len(src)
    /\ cancelled
    /\ pos' = pos + 1
    /\ pc' = "r_cancelled"
    /\ UNCHANGED <<src, dest, detached_buf, cancelled, calls>>
    /\ UNCHANGED exportVars
    /\ UNCHANGED pathVars
    /\ UNCHANGED visits

\* first loop: an entry before the commit object is copied
ReinjectScan ==
    /\ pc = "scan"
    /\ pos < Len(src)
    /\ ~cancelled
    /\ ~IsCommitEntry(src[pos + 1])
    /\ dest' = copy_entry(src[pos + 1], dest)
    /\ pos' = pos + 1
    /\ UNCHANGED <<src, detached_buf, cancelled, pc, calls>>
    /\ UNCHANGED exportVars
    /\ UNCHANGED pathVars
    /\ UNCHANGED visits

\* first loop ends without a commit object
ReinjectMissingCommit ==
    /\ pc = "scan"
    /\ pos = Len(src)
    /\ pc' = "r_failed"
    /\ UNCHANGED <<src, pos, dest, detached_buf, cancelled, calls>>
    /\ UNCHANGED exportVars
    /\ UNCHANGED pathVars
    /\ UNCHANGED visits

\* first loop finds the commit object and breaks: the commit entry is copied
\* and the buffer injected
ReinjectCommit ==
    /\ pc = "scan"
    /\ pos < Len(src)
    /\ ~cancelled
    /\ IsCommitEntry(src[pos + 1])
    /\ LET r == reinject_commit_entry(dest, src, pos, detached_buf)
       IN  /\ dest' = r.dest
           /\ pos' = r.pos
           /\ pc' = IF r.ok THEN "next" ELSE "r_failed"
    /\ UNCHANGED <<src, detached_buf, cancelled, calls>>
    /\ UNCHANGED exportVars
    /\ UNCHANGED pathVars
    /\ UNCHANGED visits

\* between the loops: entries.next() and the entry it yields, with no
\* cancellation check
ReinjectNextEntry ==
    /\ pc = "next"
    /\ LET r == reinject_next_entry(dest, src, pos)
       IN  /\ dest' = r.dest
           /\ pos' = r.pos
           /\ pc' = IF r.ok THEN "rest" ELSE "r_failed"
    /\ UNCHANGED <<src, detached_buf, cancelled, calls>>
    /\ UNCHANGED exportVars
    /\ UNCHANGED pathVars
    /\ UNCHANGED visits

\* second loop: a remaining entry is copied
ReinjectRest ==
    /\ pc = "rest"
    /\ pos < Len(src)
    /\ ~cancelled
    /\ dest' = copy_entry(src[pos + 1], dest)
    /\ pos' = pos + 1
    /\ UNCHANGED <<src, detached_buf, cancelled, pc, calls>>
    /\ UNCHANGED exportVars
    /\ UNCHANGED pathVars
    /\ UNCHANGED visits

\* second loop ends: Ok(())
ReinjectDone ==
    /\ pc = "rest"
    /\ pos = Len(src)
    /\ pc' = "r_done"
    /\ UNCHANGED <<src, pos, dest, detached_buf, cancelled, calls>>
    /\ UNCHANGED exportVars
    /\ UNCHANGED pathVars
    /\ UNCHANGED visits

\* update_detached_metadata called once more, on the stream the first call
\* returned, with the same buffer and no cancellable
UpdateDetachedMetadataAgain ==
    /\ pc = "r_done"
    /\ LET r == reinject_detached_metadata(dest, detached_buf)
       IN  /\ src' = dest
           /\ dest' = r.dest
           /\ pos' = r.pos
           /\ pc' = IF r.ok THEN "r_again" ELSE "r_again_failed"
    /\ cancelled' = FALSE
    /\ UNCHANGED <<detached_buf, calls>>
    /\ UNCHANGED exportVars
    /\ UNCHANGED pathVars
    /\ UNCHANGED visits

ReinjectNext ==
    \/ UpdateDetachedMetadata
    \/ UpdateDetachedMetadataAgain
    \/ Cancel
    \/ ReinjectCancelled
    \/ ReinjectScan
    \/ ReinjectMissingCommit
    \/ ReinjectCommit
    \/ ReinjectNextEntry
    \/ ReinjectRest
    \/ ReinjectDone

Next == ExportNext \/ ReinjectNext

Spec == Init /\ [][Next]_vars

(***************************************************************************)
(* The full export, the single chunk and the reinjection of their streams,  *)
(* with the entry point running on once it was called.                      *)
(***************************************************************************)
InitFair == Init /\ mode \in {"export_commit", "export_chunk"}

\* the steps of the running entry point itself
ProgramNext ==
    \/ New
    \/ WriteCommit
    \/ AppendDirtreeEnter
    \/ AppendDirtreeFile
    \/ AppendDirtreeDir
    \/ AppendDirtreeReturn
    \/ WriteRepoStructure
    \/ WriteChunkItem
    \/ WriteChunkEnd
    \/ ReinjectCancelled
    \/ ReinjectScan
    \/ ReinjectMissingCommit
    \/ ReinjectCommit
    \/ ReinjectNextEntry
    \/ ReinjectRest
    \/ ReinjectDone

\* and what happens to it: a write fails, the caller cancels, the caller
\* hands the finished stream to update_detached_metadata
NextFair ==
    \/ ProgramNext
    \/ WriteFails
    \/ Cancel
    \/ UpdateDetachedMetadata
    \/ UpdateDetachedMetadataAgain

\* an entry point that was called runs on: it is one thread of straight-line
\* code and loops with no wait in it, so its next step is taken
SpecFair == InitFair /\ [][NextFair]_vars /\ WF_vars(ProgramNext)

(***************************************************************************)
(* The methods of one writer called in any order.                           *)
(***************************************************************************)
InitApi ==
    /\ mode = "api"
    /\ repo = [has_commit |-> TRUE, root |-> R_empty, has_detached |-> FALSE]
    /\ options \in [format_version : FORMAT_VERSIONS]
    /\ writer = NewWriter(options.format_version)
    /\ pc = "api"
    /\ stack = <<>>
    /\ meta = <<>>
    /\ chunk = <<>>
    /\ src = <<>>
    /\ pos = 0
    /\ dest = <<>>
    /\ detached_buf = NoBuf
    /\ cancelled = FALSE
    /\ calls = <<>>
    /\ arg = NoPath
    /\ mapped = NoMapped
    /\ visits = 0

ApiWriteRepoStructure ==
    /\ pc = "api" /\ Len(calls) < MaxCalls
    /\ writer' = write_repo_structure(writer).w
    /\ calls' = Append(calls, "write_repo_structure")
    /\ UNCHANGED <<mode, repo, options, pc, stack, meta, chunk>>
    /\ UNCHANGED reinjectVars
    /\ UNCHANGED pathVars
    /\ UNCHANGED visits

ApiAppend ==
    /\ pc = "api" /\ Len(calls) < MaxCalls
    /\ \E m \in {<<"DirTree", T_bin>>, <<"DirMeta", M1>>} :
         writer' = append(writer, m[1], m[2], "object")
    /\ calls' = Append(calls, "append")
    /\ UNCHANGED <<mode, repo, options, pc, stack, meta, chunk>>
    /\ UNCHANGED reinjectVars
    /\ UNCHANGED pathVars
    /\ UNCHANGED visits

ApiAppendContent ==
    /\ pc = "api" /\ Len(calls) < MaxCalls
    /\ \E c \in {F1, F2, F3} : writer' = append_content(writer, c).w
    /\ calls' = Append(calls, "append_content")
    /\ UNCHANGED <<mode, repo, options, pc, stack, meta, chunk>>
    /\ UNCHANGED reinjectVars
    /\ UNCHANGED pathVars
    /\ UNCHANGED visits

\* append_xattrs called with a content checksum and the xattrs of that object
ApiAppendXattrs ==
    /\ pc = "api" /\ Len(calls) < MaxCalls
    /\ \E c \in {F1, F2, F3} :
         LET r == append_xattrs(writer, c, Files[c].xattrs)
         IN  /\ writer' = r.w
             /\ arg' = [checksum |-> c, xattrs |-> Files[c].xattrs]
             /\ mapped' = [fn |-> "append_xattrs", ok |-> r.ok, path |-> NoPath, wrote |-> r.wrote]
    /\ calls' = Append(calls, "append_xattrs")
    /\ UNCHANGED <<mode, repo, options, pc, stack, meta, chunk>>
    /\ UNCHANGED reinjectVars
    /\ UNCHANGED visits

NextApi == ApiWriteRepoStructure \/ ApiAppend \/ ApiAppendContent \/ ApiAppendXattrs

SpecApi == InitApi /\ [][NextApi]_vars

(***************************************************************************)
(* The path mappers called on a path.                                       *)
(***************************************************************************)
PathNames == {"usr", "etc", "s"}

\* the normal components of a path: at most n names
RECURSIVE NameSeqs(_)
NameSeqs(n) ==
    IF n = 0 THEN {<<>>}
    ELSE NameSeqs(n - 1) \cup {Append(q, c) : q \in {x \in NameSeqs(n - 1) : Len(x) = n - 1}, c \in PathNames}

\* relative, "./"-prefixed and absolute paths
PathArgs == {PlainPath(lead \o q) : lead \in {<<>>, <<".">>, <<"/">>}, q \in NameSeqs(MaxPathLen)}

\* p.starts_with("/"), p.starts_with(".")
starts_with(p, c) == IsPrefix(<<c>>, p.comps)

\* a debug build evaluates debug_assert!, a release build does not
Builds == {"debug", "release"}

Mapped(fn, p) == [fn |-> fn, ok |-> TRUE, path |-> p]
Panicked(fn) == [fn |-> fn, ok |-> FALSE, path |-> NoPath]

InitPath ==
    /\ mode = "path"
    /\ repo = NoRepo
    /\ options = ExportOptions_default
    /\ writer = NoWriter
    /\ pc = "path"
    /\ stack = <<>>
    /\ meta = <<>>
    /\ chunk = <<>>
    /\ src = <<>>
    /\ pos = 0
    /\ dest = <<>>
    /\ detached_buf = NoBuf
    /\ cancelled = FALSE
    /\ calls = <<>>
    /\ arg \in PathArgs
    /\ mapped = NoMapped
    /\ visits = 0

MapPath ==
    /\ pc = "path"
    /\ mapped' = Mapped("map_path", map_path(arg))
    /\ pc' = "mapped"
    /\ UNCHANGED <<arg, calls>>
    /\ UNCHANGED exportVars
    /\ UNCHANGED reinjectVars
    /\ UNCHANGED visits

MapPathV1 ==
    /\ pc = "path"
    /\ \E build \in Builds :
         mapped' = IF build = "debug" /\ (starts_with(arg, "/") \/ starts_with(arg, "."))
                   THEN Panicked("map_path_v1")
                   ELSE Mapped("map_path_v1", map_path_v1(arg))
    /\ pc' = "mapped"
    /\ UNCHANGED <<arg, calls>>
    /\ UNCHANGED exportVars
    /\ UNCHANGED reinjectVars
    /\ UNCHANGED visits

PathForTarV1 ==
    /\ pc = "path"
    /\ \E build \in Builds :
         mapped' = IF build = "debug" /\ starts_with(arg, ".")
                   THEN Panicked("path_for_tar_v1")
                   ELSE Mapped("path_for_tar_v1", path_for_tar_v1(arg))
    /\ pc' = "mapped"
    /\ UNCHANGED <<arg, calls>>
    /\ UNCHANGED exportVars
    /\ UNCHANGED reinjectVars
    /\ UNCHANGED visits

NextPath == MapPath \/ MapPathV1 \/ PathForTarV1

SpecPath == InitPath /\ [][NextPath]_vars

(***************************************************************************)
(* Properties.                                                              *)
(***************************************************************************)
out == writer.out
Positions == 1..Len(out)

\* an entry of the object database: a metadata or content object, or an xattrs
\* blob (repo/objects/.. or repo/xattrs/..), not a link to one
IsObjectEntry(e) ==
    /\ e.type \in {"Regular", "Symlink"}
    /\ IsPrefix(OSTREEDIR \o <<"repo">>, e.path.comps)
    /\ Len(e.path.comps) > 4
    /\ e.path.comps[4] \in {"objects", "xattrs"}

\* an entry of the repository scaffold: a directory under sysroot or the config file
IsScaffoldEntry(e) ==
    \/ e.type = "Directory" /\ IsPrefix(SYSROOT, e.path.comps)
    \/ e.type = "Regular" /\ e.path \in {PlainPath(<<"sysroot", "config">>),
                                         PlainPath(<<"sysroot", "ostree", "repo", "config">>)}

\* the checksum an object path was formatted from
ChecksumOf(path) == <<path.comps[Len(path.comps) - 1], path.comps[Len(path.comps)]>>

IsContentEntry(e) == IsObjectEntry(e) /\ e.path.ext = "file"
IsXattrsLink(e) == e.type = "Link" /\ e.path.ext \in {"file.xattrs", "file-xattrs-link"}
IsXattrsBlob(e) ==
    IsObjectEntry(e) /\ (e.path.ext = "file-xattrs" \/ e.path.comps[4] = "xattrs")

\* C1: in the stream of one export run, no two object entries (commit,
\* commitmeta, dirtree, dirmeta, content object, xattrs blob) have the same
\* object kind and checksum, that is the same object path.
C1_ObjectUniqueness ==
    LET objs == {i \in Positions : IsObjectEntry(out[i])}
    IN  \A i \in objs : \A j \in objs : i < j => out[i].path /= out[j].path

\* a finished run in which a dirtree, a dirmeta, a content object and an xattrs
\* blob were each asked for a second time
C1_Witness ==
    /\ pc = "done" /\ mode = "export_commit" /\ repo.root = R_twice
    /\ Cardinality({i \in Positions : out[i].type = "Link"
                                      /\ out[i].link = object_path("File", F1)}) = 2
    /\ Cardinality({i \in Positions : out[i].path = object_path("DirTree", T_bin)}) = 1

\* C2: every xattrs link of a content object C stands after the blob it
\* targets and before the entry of C, and C has such a link whenever xattrs
\* are emitted for it (always in v1, for a non-empty blob in v0).
C2_XattrsBeforeObject ==
    \A k \in Positions :
      IsContentEntry(out[k]) =>
        LET c == ChecksumOf(out[k].path)
            links == {j \in Positions : IsXattrsLink(out[j]) /\ ChecksumOf(out[j].path) = c}
        IN  /\ \A j \in links :
                 /\ j < k
                 /\ \E i \in 1..(j - 1) : IsXattrsBlob(out[i]) /\ out[i].path = out[j].link
            /\ (writer.format_version = 1 \/ Files[c].xattrs /= "") => links /= {}

\* a content object whose xattrs blob was written for an earlier object: its
\* link and its entry follow, the blob is not written again
C2_Witness ==
    /\ pc = "done"
    /\ \E k \in Positions : \E j \in Positions :
         /\ IsContentEntry(out[k]) /\ ChecksumOf(out[k].path) = F2
         /\ IsXattrsLink(out[j]) /\ ChecksumOf(out[j].path) = F2
         /\ j = k - 1
         /\ \E i \in 1..(j - 2) : out[i].path = out[j].link

\* C3: every hardlink entry (a rendered hardlink to a content object, an
\* xattrs link to a blob) names a target that is the path of an earlier entry.
C3_LinkTargetsPrecede ==
    \A j \in Positions :
      out[j].type = "Link" => \E i \in 1..(j - 1) : out[i].path = out[j].link

\* a finished run with two rendered hardlinks to one content object, the
\* second made when the object was a dedup hit
C3_Witness ==
    /\ pc = "done"
    /\ \E i \in Positions : \E j \in Positions :
         /\ i < j
         /\ out[i].type = "Link" /\ out[j].type = "Link"
         /\ out[i].link = out[j].link
         /\ out[i].link.ext = "file"
         /\ ~IsXattrsLink(out[i]) /\ ~IsXattrsLink(out[j])

\* C4: in a full export the root directory entry is the first entry, the
\* scaffold follows it, without a repeated path and before every object entry,
\* and the commit object directly follows the scaffold, before every other
\* object.
C4_FullExportOrder ==
    (mode = "export_commit" /\ out /= <<>>) =>
      LET scaf == {i \in Positions : IsScaffoldEntry(out[i])}
          objs == {i \in Positions : IsObjectEntry(out[i])}
          n == Cardinality(scaf)
      IN  /\ out[1].type = "Directory" /\ out[1].path = PlainPath(<<".">>)
          /\ scaf = 2..(n + 1)
          /\ out[n + 1].type = "Regular" /\ out[n + 1].path.comps[Len(out[n + 1].path.comps)] = "config"
          /\ \A i \in scaf : \A j \in scaf : i < j => out[i].path /= out[j].path
          /\ Len(out) >= n + 2
          /\ out[n + 2].path = object_path("Commit", CommitChecksum)
          /\ \A i \in objs : i >= n + 2

\* a finished full export of a tree with files, subdirectories and detached
\* metadata
C4_Witness ==
    /\ pc = "done" /\ mode = "export_commit" /\ repo.root = R_full /\ repo.has_detached
    /\ \E i \in Positions : out[i].path = object_path("CommitMeta", CommitChecksum)

\* C5: a call of write_repo_structure on a writer whose scaffold is written
\* changes nothing of the writer: no entry is emitted, no dedup set changes.
C5_ScaffoldIdempotent ==
    [][(/\ calls' /= calls
        /\ calls'[Len(calls')] = "write_repo_structure"
        /\ writer.wrote_initdirs) => writer' = writer]_vars

\* write_repo_structure was called twice in a row on a fresh writer and the
\* stream holds the scaffold of one call
C5_Witness ==
    /\ Len(calls) >= 2
    /\ calls[1] = "write_repo_structure" /\ calls[2] = "write_repo_structure"
    /\ writer.out = write_repo_structure(NewWriter(writer.format_version)).w.out
    /\ Len(writer.out) > 256

\* an entry of the rendered tree: a directory or hardlink outside sysroot
IsRendered(e) == e.type \in {"Directory", "Link"} /\ ~IsPrefix(SYSROOT, e.path.comps)

\* C6: export_chunk runs in format version 1: config at
\* sysroot/ostree/repo/config, no sysroot/ostree/repo/xattrs directory, xattrs
\* in the file-xattrs / file-xattrs-link layout, content modes without the
\* S_IFMT bits.
C6_ExportChunkIsV1 ==
    mode = "export_chunk" =>
      /\ writer.format_version = 1 \/ writer = NoWriter
      /\ \A i \in Positions :
           /\ out[i].path /= PlainPath(<<"sysroot", "config">>)
           /\ out[i].path /= PlainPath(<<"sysroot", "ostree", "repo", "xattrs">>)
           /\ IsXattrsLink(out[i]) => out[i].path.ext = "file-xattrs-link"
           /\ IsXattrsBlob(out[i]) => out[i].path.ext = "file-xattrs"
           /\ IsContentEntry(out[i]) => out[i].mode < 4096

\* C7: every directory entry and hardlink of the rendered tree has a path
\* that starts with ./ in format version 0 and does not in format version 1.
C7_RenderedPrefixByVersion ==
    \A i \in Positions :
      IsRendered(out[i]) => (out[i].path.comps[1] = "." <=> writer.format_version = 0)

\* C8: with a format version other than 0 and 1 no writer is constructed: the
\* commit is not loaded and no entry is ever emitted.
C8_UnsupportedVersionRejected ==
    (mode = "export_commit" /\ options.format_version \notin {0, 1}) =>
      /\ writer.commit_object = ""
      /\ out = <<>>
      /\ pc \in {"start", "failed"}

\* export_commit with format version 2 has failed
C8_Witness ==
    mode = "export_commit" /\ options.format_version = 2 /\ pc = "failed" /\ repo.has_commit

\* the position in s of the first Regular entry whose path ends with .commit
\* (0 when there is none)
CommitIndex(s) ==
    IF \E i \in 1..Len(s) : IsCommitEntry(s[i])
    THEN CHOOSE i \in 1..Len(s) :
           IsCommitEntry(s[i]) /\ \A j \in 1..(i - 1) : ~IsCommitEntry(s[j])
    ELSE 0

IsCommitMeta(e) == e.path.ext = "commitmeta"

\* the commit entry of s is directly followed by a CommitMeta entry
HasCommitMeta(s) ==
    LET ci == CommitIndex(s) IN ci > 0 /\ ci < Len(s) /\ IsCommitMeta(s[ci + 1])

Without(s, i) == SubSeq(s, 1, i - 1) \o SubSeq(s, i + 1, Len(s))

\* C9: after a successful reinjection on a stream whose commit entry is
\* directly followed by a CommitMeta entry, the output has no CommitMeta entry
\* when no buffer was given, and with a buffer B exactly one: directly after
\* the commit entry, at the CommitMeta object path of the commit's checksum,
\* with payload B.
C9_ReinjectReplaces ==
    (pc = "r_done" /\ HasCommitMeta(src)) =>
      LET ci == CommitIndex(dest)
          metas == {i \in 1..Len(dest) : IsCommitMeta(dest[i])}
      IN  /\ ci > 0 /\ dest[ci] = src[CommitIndex(src)]
          /\ ~detached_buf.some => metas = {}
          /\ detached_buf.some =>
               /\ metas = {ci + 1}
               /\ dest[ci + 1].path = object_path("CommitMeta", ChecksumOf(dest[ci].path))
               /\ dest[ci + 1].type = "Regular"
               /\ dest[ci + 1].data = detached_buf.buf
               /\ dest[ci + 1].size = Len(detached_buf.buf)

\* a reinjection with a buffer has finished on a stream that had a CommitMeta
C9_Witness ==
    pc = "r_done" /\ HasCommitMeta(src) /\ detached_buf.some /\ Len(dest) = Len(src)

\* C10: the output of a successful reinjection is the input without the
\* CommitMeta entry directly after the commit, every entry unchanged and in
\* order, plus the new CommitMeta entry when a buffer was given.
C10_ReinjectPreservesEnvelope ==
    pc = "r_done" =>
      LET ci == CommitIndex(src)
          kept == IF HasCommitMeta(src) THEN Without(src, ci + 1) ELSE src
      IN  /\ ci > 0
          /\ IF detached_buf.some
             THEN /\ Len(dest) = Len(kept) + 1
                  /\ IsCommitMeta(dest[ci + 1])
                  /\ Without(dest, ci + 1) = kept
             ELSE dest = kept

\* reinjections have finished that added, replaced, removed and left absent
\* the CommitMeta entry; this one added it to a stream without one
C10_Witness ==
    /\ pc = "r_done" /\ ~HasCommitMeta(src) /\ detached_buf.some
    /\ Len(dest) = Len(src) + 1
    /\ \E i \in 1..Len(src) : src[i].type = "Link"

\* a stream of export_commit: it starts with the root directory entry
IsFullExport(s) == s /= <<>> /\ s[1].type = "Directory" /\ s[1].path = PlainPath(TAR_PATH_PREFIX_V0)

NoCommitOrCommitLast(s) == CommitIndex(s) = 0 \/ CommitIndex(s) = Len(s)

\* C12: on an input with no Regular entry whose path ends with .commit, or
\* whose commit entry is the last entry, reinjection never returns success
\* and never gets to its second loop: it ends with an error.
C12_ReinjectErrors ==
    pc \in {"rest", "r_done", "r_again"} => ~NoCommitOrCommitLast(src)

\* a reinjection has failed on a stream that ends with its commit entry,
\* after copying everything up to and including the commit
C12_Witness ==
    /\ pc = "r_failed" /\ src /= <<>>
    /\ CommitIndex(src) = Len(src)
    /\ pos = Len(src) /\ dest = src

\* C13: the cancellable is polled before each input entry is processed: when
\* it is cancelled and an input entry remains, the next step returns the
\* cancellation error and writes nothing.
C13_ReinjectCancellation ==
    [][(/\ pc \in {"scan", "next", "rest"}
        /\ cancelled
        /\ pos < Len(src)) => (pc' = "r_cancelled" /\ dest' = dest)]_vars

\* C14: in a full export no entry is at ./sysroot or below it, and every entry
\* under sysroot is an entry of the scaffold or of the object database (an
\* object, an xattrs blob or an xattrs link).
C14_SysrootSuppression ==
    mode = "export_commit" =>
      \A i \in Positions :
        /\ ~IsPrefix(TAR_PATH_PREFIX_V0 \o SYSROOT, out[i].path.comps)
        /\ IsPrefix(SYSROOT, out[i].path.comps) =>
             IsScaffoldEntry(out[i]) \/ IsObjectEntry(out[i]) \/ IsXattrsLink(out[i])

\* a path that begins with usr/etc: usr/etc or usr/etc/s
BeginsWithUsrEtc(p) == IsPrefix(<<"usr", "etc">>, p.comps)

\* the components of a relative path with usr/etc replaced by etc
EtcForUsrEtc(comps) ==
    IF IsPrefix(<<"usr", "etc">>, comps) THEN <<"etc">> \o SubSeq(comps, 3, Len(comps)) ELSE comps

\* C15 as stated: a path not beginning with usr/etc is returned unchanged by
\* map_path and by map_path_v1; for usr/etc or usr/etc/s map_path returns
\* ./etc or ./etc/s and map_path_v1 returns etc or etc/s.
C15_PathMappingAsStated ==
    (mapped.fn \in {"map_path", "map_path_v1"} /\ mapped.ok) =>
      IF BeginsWithUsrEtc(arg)
      THEN mapped.path.comps = (IF mapped.fn = "map_path" THEN <<".">> ELSE <<>>)
                               \o EtcForUsrEtc(arg.comps)
      ELSE mapped.path = arg

\* C15 amended: map_path rewrites ./usr/etc or ./usr/etc/s to ./etc or
\* ./etc/s and returns every other path unchanged, usr/etc/s without the
\* leading ./ included; map_path_v1, on the relative paths without leading
\* "." it accepts, rewrites usr/etc or usr/etc/s to etc or etc/s and returns
\* every other path unchanged.
C15_PathMapping ==
    /\ mapped.fn = "map_path" =>
         /\ mapped.ok
         /\ mapped.path.comps = IF starts_with(arg, ".")
                                THEN <<".">> \o EtcForUsrEtc(Tail(arg.comps))
                                ELSE arg.comps
    /\ (mapped.fn = "map_path_v1" /\ ~starts_with(arg, "/") /\ ~starts_with(arg, ".")) =>
         /\ mapped.ok
         /\ mapped.path.comps = EtcForUsrEtc(arg.comps)

\* map_path has returned ./etc/s for ./usr/etc/s
C15_Witness ==
    /\ mapped.fn = "map_path"
    /\ arg = PlainPath(<<".", "usr", "etc", "s">>)
    /\ mapped.path = PlainPath(<<".", "etc", "s">>)

\* the mode word with the four file-type bits (bits 12 to 15) taken out
WithoutTypeBits(m) == m - ((m \div 4096) % 16) * 4096

\* the mode an entry carries for the stored mode word m
WrittenMode(m) == IF writer.format_version = 0 THEN m ELSE WithoutTypeBits(m)

\* a hardlink that places a content object in the rendered tree
IsContentHardlink(e) == e.type = "Link" /\ e.link.ext = "file" /\ ~IsXattrsLink(e)

\* every content object entry and every rendered hardlink to one carries the
\* written form of the object's stored mode
ContentModes ==
    \A i \in Positions :
      /\ IsContentEntry(out[i]) => out[i].mode = WrittenMode(Files[ChecksumOf(out[i].path)].mode)
      /\ IsContentHardlink(out[i]) => out[i].mode = WrittenMode(Files[ChecksumOf(out[i].link)].mode)

\* the subdirectory item the walker is at
DirItem ==
    DirTrees[Top.checksum].dirs[Top.pos - Len(DirTrees[Top.checksum].files) + 1]

\* C16: the mode written for a directory entry built from a dirmeta (the root
\* directory, and each subdirectory the walker enters), for a content object
\* entry and for its rendered hardlinks is the stored mode word in format
\* version 0 and that word without the S_IFMT bits in format version 1.
C16_ModeFilter ==
    [][/\ ContentModes'
       /\ (pc = "write_commit" /\ pc' = "walk") =>
            /\ out'[1].type = "Directory"
            /\ out'[1].mode = WrittenMode(DirMetas[RootDirMeta].mode)
       /\ (pc = "walk" /\ Len(stack') > Len(stack)) =>
            /\ out'[Len(out')].type = "Directory"
            /\ out'[Len(out')].path = stack'[Len(stack')].dirpath
            /\ out'[Len(out')].mode = WrittenMode(DirMetas[DirItem[3]].mode)]_vars

\* a finished full export in format version 1: a regular file, a symlink and
\* their hardlinks and two directories carry modes without type bits
C16_Witness ==
    /\ pc = "done" /\ mode = "export_commit" /\ writer.format_version = 1
    /\ repo.root = R_full
    /\ \E i \in Positions : IsContentEntry(out[i]) /\ out[i].type = "Regular" /\ out[i].mode = 420
    /\ \E i \in Positions : IsContentEntry(out[i]) /\ out[i].type = "Symlink" /\ out[i].mode = 511
    /\ \E i \in Positions : IsContentHardlink(out[i]) /\ out[i].mode = 420
    /\ \E i \in Positions : out[i].type = "Directory" /\ out[i].mode = 448
    /\ out[1].mode = 493

FailedPcs == {"failed", "r_failed", "r_cancelled", "r_again_failed"}

\* append_content of checksum c cannot succeed: the object is not in the
\* repository, lacks its metadata or xattrs, or is new and neither a regular
\* file nor a symlink
ContentFails(c) ==
    \/ c \notin DOMAIN Files
    \/ ~Files[c].has_meta \/ ~Files[c].has_xattrs
    \/ c \notin writer.wrote_content /\ Files[c].file_type \notin {"Regular", "SymbolicLink"}

\* the metadata object m = (type, checksum) is not in the repository
MetaMissing(m) ==
    \/ m[1] = "DirTree" /\ m[2] \notin DOMAIN DirTrees
    \/ m[1] = "DirMeta" /\ m[2] \notin DOMAIN DirMetas

\* the step from this state to the next meets a failure: an unsupported
\* version or a missing commit, a missing dirtree, a content object that
\* cannot be written, a missing inventory object, a cancelled handle at a
\* poll, a missing commit entry, a missing or unparsable entry after it
StepFails ==
    \/ pc = "start" /\ (FormatVersionOf(mode, options) \notin {0, 1} \/ ~repo.has_commit)
    \/ pc = "walk" /\ ~Top.entered /\ Top.checksum \notin DOMAIN DirTrees
    \/ /\ pc = "walk" /\ Top.entered /\ Top.pos < Len(DirTrees[Top.checksum].files)
       /\ ContentFails(DirTrees[Top.checksum].files[Top.pos + 1][2])
    \/ pc = "meta" /\ meta' /= meta /\ MetaMissing(meta'[Len(meta')])
    \/ pc = "chunk" /\ chunk' /= chunk /\ ContentFails(chunk'[Len(chunk')])
    \/ pc \in {"scan", "rest"} /\ cancelled /\ pos < Len(src)
    \/ pc = "scan" /\ pos = Len(src)
    \/ pc = "next" /\ (pos = Len(src) \/ src[pos + 1].path.ext \notin MetadataSuffixes)

\* the running entry point takes the step (not the caller cancelling)
OperationStep == <<pc, writer, stack, meta, chunk, pos, dest>>' /= <<pc, writer, stack, meta, chunk, pos, dest>>

\* an export that returned Ok met no object that fails
DoneClean ==
    pc = "done" =>
      /\ repo.root \notin {R_bad, R_gone, R_dev}
      /\ \A i \in 1..Len(chunk) : ~ContentFails(chunk[i])
      /\ \A i \in 1..Len(meta) : ~MetaMissing(meta[i])

\* C18: no error is recovered: a step that meets a failure ends the entry
\* point in an error, an entry point that returned Ok met none, and after an
\* error nothing more is written to the stream.
C18_NoLocalRecovery ==
    [][/\ (OperationStep /\ StepFails) => pc' \in FailedPcs
       /\ DoneClean'
       /\ pc \in FailedPcs => (pc' = pc /\ writer' = writer /\ dest' = dest)]_vars

\* a full export has failed at a file of unsupported type, after writing the
\* file before it and the xattrs of the failing one; nothing follows
C18_Witness ==
    /\ pc = "failed" /\ mode = "export_commit" /\ repo.root = R_dev
    /\ writer.format_version = 1
    /\ \E i \in Positions : IsContentHardlink(out[i]) /\ out[i].link = object_path("File", F2)
    /\ IsXattrsLink(out[Len(out)]) /\ ChecksumOf(out[Len(out)].path) = F6

\* the xattrs blob entries of the stream are pairwise at different paths
OneBlobPerChecksum ==
    LET blobs == {i \in Positions : IsXattrsBlob(out[i])}
    IN  \A i \in blobs : \A j \in blobs : i < j => out[i].path /= out[j].path

\* C19: a call of append_xattrs for content object c with blob x writes
\* nothing and returns false when x is empty in format version 0; otherwise it
\* returns true and appends the blob entry, only if the stream has no entry
\* at the blob's path yet, and then always the link entry from c to the blob.
\* No blob is in the stream twice.
C19_XattrEmitter ==
    [][/\ OneBlobPerChecksum'
       /\ (calls' /= calls /\ calls'[Len(calls')] = "append_xattrs") =>
            LET c == arg'.checksum
                x == arg'.xattrs
                v0 == writer.format_version = 0
                blob == IF v0 THEN v0_xattrs_path(Sha256Hex[x])
                        ELSE v1_xattrs_object_path(Sha256Hex[x])
                link == IF v0 THEN v0_xattrs_object_path(c) ELSE v1_xattrs_link_object_path(c)
                seen == \E i \in Positions : out[i].path = blob
                blobEntry == Entry("Regular", blob, NoPath, 0, 0, MODE_FILE, Len(x), x)
                linkEntry == Entry("Link", link, blob, 0, 0, MODE_FILE, 0, "")
            IN  IF v0 /\ x = ""
                THEN ~mapped'.wrote /\ out' = out
                ELSE /\ mapped'.wrote
                     /\ out' = out \o (IF seen THEN <<>> ELSE <<blobEntry>>) \o <<linkEntry>>]_vars

\* append_xattrs was called for two content objects that share one blob: the
\* stream holds the blob once and a link for each object
C19_Witness ==
    /\ Len(calls) >= 2 /\ calls[1] = "append_xattrs" /\ calls[2] = "append_xattrs"
    /\ Cardinality({i \in Positions : IsXattrsBlob(out[i])}) = 1
    /\ \E i \in Positions : IsXattrsLink(out[i]) /\ ChecksumOf(out[i].path) = F1
    /\ \E i \in Positions : IsXattrsLink(out[i]) /\ ChecksumOf(out[i].path) = F2
    /\ Len(out) = 3

\* a dirtree or dirmeta object entry
IsInventoryEntry(e) == IsObjectEntry(e) /\ e.path.ext \in {"dirtree", "dirmeta"}

\* the inventory items that get written: present in the repository and not
\* named earlier in the inventory
InventoryWritten ==
    {a \in 1..Len(meta) : ~MetaMissing(meta[a]) /\ \A b \in 1..(a - 1) : meta[b] /= meta[a]}

\* the position in the stream of the entry at path p
PosOf(p) == CHOOSE i \in Positions : out[i].path = p

\* C20: the stream of export_final_chunk is the scaffold, then the commit
\* object, then the CommitMeta object if and only if the repository has
\* detached metadata, then the objects of the inventory in inventory order,
\* each once, and after them only content objects, xattrs and hardlinks.
C20_FinalChunkOrder ==
    (mode = "export_final_chunk" /\ out /= <<>>) =>
      LET n == Cardinality({i \in Positions : IsScaffoldEntry(out[i])})
          k == n + 1 + (IF repo.has_detached THEN 1 ELSE 0)
          inv == {i \in Positions : IsInventoryEntry(out[i])}
      IN  /\ \A i \in 1..n : IsScaffoldEntry(out[i])
          /\ n > 256
          /\ pc \in {"meta", "chunk", "done"} => Len(out) >= k
          /\ Len(out) > n =>
               /\ Len(out) >= k
               /\ out[n + 1].path = object_path("Commit", CommitChecksum)
               /\ repo.has_detached => out[k].path = object_path("CommitMeta", CommitChecksum)
          /\ \A i \in Positions : IsCommitMeta(out[i]) => (repo.has_detached /\ i = k)
          /\ inv = (k + 1)..(k + Cardinality(inv))
          /\ {out[i].path : i \in inv} = {object_path(meta[a][1], meta[a][2]) : a \in InventoryWritten}
          /\ \A a \in InventoryWritten : \A b \in InventoryWritten :
               a < b => PosOf(object_path(meta[a][1], meta[a][2]))
                          < PosOf(object_path(meta[b][1], meta[b][2]))
          /\ \A i \in (k + Cardinality(inv) + 1)..Len(out) :
               /\ pc \in {"chunk", "done", "failed"}
               /\ IsContentEntry(out[i]) \/ IsXattrsBlob(out[i]) \/ out[i].type = "Link"

\* a finished final chunk with detached metadata, an inventory of two
\* different objects and a residual chunk
C20_Witness ==
    /\ pc = "done" /\ mode = "export_final_chunk" /\ repo.has_detached
    /\ Len(meta) = 2 /\ meta[1] = <<"DirTree", R_twice>> /\ meta[2] = <<"DirMeta", M1>>
    /\ Len(chunk) = 2
    /\ Cardinality({i \in Positions : IsInventoryEntry(out[i])}) = 2

\* a rendered path of a chunk mapping without its leading /, and with usr/etc
\* replaced by etc
ChunkRendered(p) ==
    PlainPath(EtcForUsrEtc(IF p.comps[1] = "/" THEN Tail_n(p.comps, 1) ELSE p.comps))

\* what the claim expects for one checksum: its object, then one hardlink per
\* rendered path, in list order
ChunkItemExpected(c) ==
    <<[kind |-> "object", path |-> object_path("File", c), link |-> NoPath]>>
    \o [i \in 1..Len(ChunkPaths[c]) |->
          [kind |-> "link", path |-> ChunkRendered(ChunkPaths[c][i]),
           link |-> object_path("File", c)]]

RECURSIVE ChunkExpected(_)
\* the same for the checksums of a mapping, in mapping order
ChunkExpected(keys) ==
    IF keys = <<>> THEN <<>>
    ELSE ChunkExpected(SubSeq(keys, 1, Len(keys) - 1)) \o ChunkItemExpected(keys[Len(keys)])

IsContentOrHardlink(e) == IsContentEntry(e) \/ IsContentHardlink(e)

\* the content objects and rendered hardlinks of the stream, in stream order
ChunkWritten ==
    LET sel == SelectSeq(out, IsContentOrHardlink)
    IN  [i \in 1..Len(sel) |->
           [kind |-> IF sel[i].type = "Link" THEN "link" ELSE "object",
            path |-> sel[i].path,
            link |-> IF sel[i].type = "Link" THEN sel[i].link ELSE NoPath]]

\* the number of paths of the checksums of a mapping
RECURSIVE ChunkPathCount(_)
ChunkPathCount(keys) ==
    IF keys = <<>> THEN 0 ELSE Len(ChunkPaths[keys[1]]) + ChunkPathCount(Tail(keys))

\* C21: in a single chunk that has not failed, the scaffold comes first; after
\* it, for each checksum consumed so far in mapping order, the content object
\* is written once and followed by one hardlink per rendered path of the
\* checksum, in list order, at the path without its leading / and with
\* usr/etc replaced by etc, each linking to the object's path; the number of
\* rendered hardlinks is the number of paths of the checksums consumed.
C21_SingleChunk ==
    (mode = "export_chunk" /\ pc \in {"chunk", "done"}) =>
      LET n == Cardinality({i \in Positions : IsScaffoldEntry(out[i])})
      IN  /\ n > 256
          /\ \A i \in 1..n : IsScaffoldEntry(out[i])
          /\ ChunkWritten = ChunkExpected(chunk)
          /\ Cardinality({i \in Positions : IsContentHardlink(out[i])}) = ChunkPathCount(chunk)
          /\ \A i \in Positions : IsRendered(out[i]) => IsContentHardlink(out[i])

\* a finished single chunk of two checksums, the first with two paths, one of
\* them under /usr/etc
C21_Witness ==
    /\ mode = "export_chunk" /\ pc = "done"
    /\ chunk = <<F1, F2>>
    /\ \E i \in Positions :
         /\ IsContentHardlink(out[i])
         /\ out[i].path = PlainPath(<<"etc", "c">>)
         /\ out[i].link = object_path("File", F1)
    /\ Cardinality({i \in Positions : IsContentHardlink(out[i])}) = 3

\* the paths of the entries of a stream
PathsOf(s) == {s[i].path : i \in 1..Len(s)}

\* the rendered path of the entry called name of the directory walked at dirpath
ChildPath(dirpath, name) == map_path(join(dirpath, name))

\* the rendered paths of the files and subdirectories of dirtree c walked at dirpath
ChildPaths(dirpath, c) ==
    {ChildPath(dirpath, DirTrees[c].files[i][1]) : i \in 1..Len(DirTrees[c].files)}
    \cup {ChildPath(dirpath, DirTrees[c].dirs[i][1]) : i \in 1..Len(DirTrees[c].dirs)}

\* a step of the walker that did not fail
WalkStep == pc = "walk" /\ pc' = "walk" /\ stack' /= stack

\* the walker enters a dirtree: its object is written unless an earlier visit
\* wrote it, and nothing of its contents is in the stream
EnterOrder ==
    (WalkStep /\ ~Top.entered) =>
      /\ IsPrefix(writer.out, writer'.out)
      /\ Len(writer'.out) =
           Len(writer.out)
           + (IF object_path("DirTree", Top.checksum) \in PathsOf(writer.out) THEN 0 ELSE 1)
      /\ object_path("DirTree", Top.checksum) \in PathsOf(writer'.out)
      /\ ChildPaths(Top.dirpath, Top.checksum) \cap PathsOf(writer'.out) = {}

\* the walker renders a file: the hardlink is the last entry written, the
\* content object is before it, and no subdirectory of this directory has an
\* entry yet
FileOrder ==
    (WalkStep /\ Top.entered /\ Top.pos < Len(DirTrees[Top.checksum].files)) =>
      LET file == DirTrees[Top.checksum].files[Top.pos + 1]
          t == DirTrees[Top.checksum]
          o2 == writer'.out
      IN  /\ IsPrefix(writer.out, o2) /\ Len(o2) > Len(writer.out)
          /\ o2[Len(o2)].type = "Link"
          /\ o2[Len(o2)].path = ChildPath(Top.dirpath, file[1])
          /\ o2[Len(o2)].link = object_path("File", file[2])
          /\ \E i \in 1..(Len(o2) - 1) :
               o2[i].path = object_path("File", file[2]) /\ IsContentEntry(o2[i])
          /\ \A k \in 1..Len(t.dirs) : ChildPath(Top.dirpath, t.dirs[k][1]) \notin PathsOf(o2)

\* the walker goes down into a subdirectory: every file of this directory is
\* rendered, the directory entry is the last entry written, the dirmeta
\* object is before it, and neither the dirtree object of the subdirectory
\* nor anything of its contents is written by this step
DirOrder ==
    (WalkStep /\ Top.entered /\ Len(stack') = Len(stack) + 1) =>
      LET t == DirTrees[Top.checksum]
          item == t.dirs[Top.pos - Len(t.files) + 1]
          sub == ChildPath(Top.dirpath, item[1])
          o1 == writer.out
          o2 == writer'.out
      IN  /\ Top.pos >= Len(t.files)
          /\ \A k \in 1..Len(t.files) : ChildPath(Top.dirpath, t.files[k][1]) \in PathsOf(o1)
          /\ IsPrefix(o1, o2) /\ Len(o2) > Len(o1)
          /\ o2[Len(o2)].type = "Directory" /\ o2[Len(o2)].path = sub
          /\ \E i \in 1..(Len(o2) - 1) : o2[i].path = object_path("DirMeta", item[3])
          /\ \A i \in (Len(o1) + 1)..Len(o2) : o2[i].path.ext /= "dirtree"
          /\ stack'[Len(stack')] = Frame(sub, item[2], FALSE)
          /\ item[2] \in DOMAIN DirTrees => ChildPaths(sub, item[2]) \cap PathsOf(o2) = {}

\* C22: in every directory a full export walks, the dirtree object is in the
\* stream (written on entering unless an earlier visit wrote it) before
\* anything of the directory's contents; each file's content object is before
\* the hardlink that renders it; every file of the directory is rendered
\* before any of its subdirectories has an entry; and for each subdirectory
\* the dirmeta object is before the directory entry, which is before the
\* subdirectory's dirtree object (when this visit writes it) and contents.
C22_WalkerOrder == [][EnterOrder /\ FileOrder /\ DirOrder]_vars

\* a finished full export of a commit with files and subdirectories at two
\* levels, one of them rendered under ./etc
C22_Witness ==
    /\ mode = "export_commit" /\ pc = "done" /\ repo.root = R_full
    /\ \E i \in Positions : \E j \in Positions :
         /\ i < j
         /\ out[i].type = "Directory" /\ out[i].path = PlainPath(<<".", "etc">>)
         /\ out[j].type = "Link" /\ out[j].path = PlainPath(<<".", "etc", "c">>)

\* the subdirectory items of dirtree c other than a root-level sysroot
DirsWalked(c, is_root) ==
    IF c \notin DOMAIN DirTrees THEN {}
    ELSE {k \in 1..Len(DirTrees[c].dirs) : ~(is_root /\ DirTrees[c].dirs[k][1] = "sysroot")}

RECURSIVE TreesBelow(_, _)
\* the dirtree checksums of the directories of the tree of c, c included,
\* without a root-level sysroot subdirectory and what is below it
TreesBelow(c, is_root) ==
    {c} \cup UNION {TreesBelow(DirTrees[c].dirs[k][2], FALSE) : k \in DirsWalked(c, is_root)}

\* the walker is at a subdirectory item named sysroot and does not fail
AtSysrootItem ==
    /\ WalkStep /\ Top.entered
    /\ Top.pos >= Len(DirTrees[Top.checksum].files)
    /\ Top.pos < Len(DirTrees[Top.checksum].files) + Len(DirTrees[Top.checksum].dirs)
    /\ DirItem[1] = "sysroot"

\* at the root the step writes the dirmeta object unless it is in the stream,
\* and nothing else, and the walker stays in the root
RootSysrootSkipped ==
    (AtSysrootItem /\ Top.is_root) =>
      /\ IsPrefix(writer.out, writer'.out)
      /\ Len(writer'.out) =
           Len(writer.out)
           + (IF object_path("DirMeta", DirItem[3]) \in PathsOf(writer.out) THEN 0 ELSE 1)
      /\ object_path("DirMeta", DirItem[3]) \in PathsOf(writer'.out)
      /\ stack' = SetTop([Top EXCEPT !.pos = @ + 1])

\* below the root the step writes the directory entry and the walker goes down
DeepSysrootWalked ==
    (AtSysrootItem /\ ~Top.is_root) =>
      /\ writer'.out[Len(writer'.out)].type = "Directory"
      /\ writer'.out[Len(writer'.out)].path = join(Top.dirpath, "sysroot")
      /\ Len(stack') = Len(stack) + 1
      /\ stack'[Len(stack')] = Frame(join(Top.dirpath, "sysroot"), DirItem[2], FALSE)

\* a full export has no directory entry at ./sysroot, and the dirtree objects
\* it writes are of directories outside a root-level sysroot (stated of the
\* state a step leads to; the stream is empty before the first step)
NoRootSysrootDir ==
    mode = "export_commit" =>
      \A i \in Positions :
        /\ out[i].type = "Directory" => out[i].path /= PlainPath(<<".", "sysroot">>)
        /\ (IsObjectEntry(out[i]) /\ out[i].path.ext = "dirtree") =>
             ChecksumOf(out[i].path) \in TreesBelow(repo.root, TRUE)

\* a full export that finished has walked a sysroot below the root like any
\* other directory: its directory entry, its dirtree object and its files
DeepSysrootRendered ==
    (mode = "export_commit" /\ pc = "done" /\ repo.root = R_deep) =>
      LET dir == PlainPath(<<".", "var", "sysroot">>)
          file == PlainPath(<<".", "var", "sysroot", "s">>)
      IN  /\ {dir, object_path("DirTree", T_sys), file} \subseteq PathsOf(out)
          /\ out[PosOf(dir)].type = "Directory"
          /\ PosOf(dir) < PosOf(object_path("DirTree", T_sys))
          /\ PosOf(object_path("DirTree", T_sys)) < PosOf(file)
          /\ out[PosOf(file)].type = "Link"

\* C23: for a subdirectory named sysroot directly under the root the walker
\* writes the dirmeta object (unless already written), no directory entry and
\* no dirtree object, and does not go down; a subdirectory named sysroot
\* below the root gets its directory entry, and the walker goes down into it
\* and writes its dirtree object and contents.
C23_SysrootSkipRootOnly ==
    [][/\ RootSysrootSkipped /\ DeepSysrootWalked
       /\ NoRootSysrootDir' /\ DeepSysrootRendered']_vars

\* a finished full export of a commit with a sysroot directory under the root,
\* whose dirmeta object is in the stream and whose dirtree object is not
C23_Witness ==
    /\ mode = "export_commit" /\ pc = "done" /\ repo.root = R_full
    /\ object_path("DirMeta", M2) \in PathsOf(out)
    /\ object_path("DirTree", T_sys) \notin PathsOf(out)
    /\ object_path("DirTree", T_usr) \in PathsOf(out)

\* the rendered path of the file or directory at ./names: a leading ./usr/etc
\* becomes ./etc
RenderedAt(names) ==
    IF IsPrefix(<<"usr", "etc">>, names)
    THEN PlainPath(<<".", "etc">> \o Tail_n(names, 2))
    ELSE PlainPath(<<".">> \o names)

\* one hardlink per file of dirtree c, which is the directory at ./names
FileLinks(names, c) ==
    [i \in 1..Len(DirTrees[c].files) |->
       [path |-> RenderedAt(names \o <<DirTrees[c].files[i][1]>>),
        link |-> object_path("File", DirTrees[c].files[i][2])]]

RECURSIVE TreeLinks(_, _, _)
RECURSIVE DirsLinks(_, _, _, _)
\* the hardlinks of every (directory path, file name) occurrence of the tree
\* of c, without a root-level sysroot subdirectory: a directory's files, then
\* its subdirectories in turn
TreeLinks(names, c, is_root) == FileLinks(names, c) \o DirsLinks(names, c, is_root, 1)

\* the same for the subdirectory items k.. of dirtree c
DirsLinks(names, c, is_root, k) ==
    IF k > Len(DirTrees[c].dirs) THEN <<>>
    ELSE (IF k \in DirsWalked(c, is_root)
          THEN TreeLinks(names \o <<DirTrees[c].dirs[k][1]>>, DirTrees[c].dirs[k][2], FALSE)
          ELSE <<>>)
         \o DirsLinks(names, c, is_root, k + 1)

\* the rendered hardlinks of the stream, in stream order
RenderedLinks ==
    LET sel == SelectSeq(out, IsContentHardlink)
    IN  [i \in 1..Len(sel) |-> [path |-> sel[i].path, link |-> sel[i].link]]

\* how many entries of the stream are at path p
CountAt(p) == Cardinality({i \in Positions : out[i].path = p})

\* C25: the stream of a finished full export has one hardlink for every
\* (directory path, file name) occurrence reachable from the root dirtree
\* outside a root-level sysroot subdirectory, at the rendered path (./usr/etc
\* as ./etc) and linking to the file's object path, and no other rendered
\* hardlink; a file or dirtree reached more than once is rendered each time,
\* and its object is in the stream once.
C25_RenderedTreeComplete ==
    (mode = "export_commit" /\ pc = "done") =>
      LET links == TreeLinks(<<>>, repo.root, TRUE)
      IN  /\ RenderedLinks = links
          /\ \A i \in 1..Len(links) : CountAt(links[i].link) = 1
          /\ \A c \in TreesBelow(repo.root, TRUE) : CountAt(object_path("DirTree", c)) = 1

\* a finished full export of a commit whose two subdirectories are one dirtree:
\* four hardlinks to two content objects, one dirtree object for both
C25_Witness ==
    /\ mode = "export_commit" /\ pc = "done" /\ repo.root = R_twice
    /\ Len(RenderedLinks) = 4
    /\ \E i \in 1..4 : RenderedLinks[i] = [path |-> PlainPath(<<".", "srv", "a">>),
                                          link |-> object_path("File", F1)]
    /\ Cardinality({i \in Positions : IsContentEntry(out[i])}) = 2
    /\ CountAt(object_path("DirTree", T_bin)) = 1

\* C24: in a full export the caller's cancellation handle is polled on
\* entering each dirtree: when the handle is cancelled, the step that enters
\* a dirtree returns an error, so that none of the dirtree's file or
\* subdirectory entries is written.
C24_FullExportCancellation ==
    [][(pc = "walk" /\ ~Top.entered /\ cancelled) => pc' = "failed"]_vars

RECURSIVE DirOccurrences(_, _, _)
RECURSIVE DirOccurrencesFrom(_, _, _, _)
\* the number of directory occurrences of the tree of dirtree c, c included;
\* with skip, a root-level sysroot subdirectory and what is below it are not
\* counted
DirOccurrences(c, is_root, skip) == 1 + DirOccurrencesFrom(c, is_root, skip, 1)

\* the same for the subdirectory items k.. of dirtree c
DirOccurrencesFrom(c, is_root, skip, k) ==
    IF c \notin DOMAIN DirTrees \/ k > Len(DirTrees[c].dirs) THEN 0
    ELSE (IF skip /\ k \notin DirsWalked(c, is_root) THEN 0
          ELSE DirOccurrences(DirTrees[c].dirs[k][2], FALSE, skip))
         + DirOccurrencesFrom(c, is_root, skip, k + 1)

ExportRunning == pc \in {"start", "write_commit", "walk", "scaffold", "commit_object", "meta", "chunk"}
ReinjectRunning == pc \in {"scan", "next", "rest"}

\* C26 as stated, for the exports that succeed: a full export that has
\* finished made as many dirtree visits as the tree has directory occurrences.
C26_VisitsAsStated ==
    (mode = "export_commit" /\ pc = "done") => visits = DirOccurrences(repo.root, TRUE, FALSE)

\* a full export never makes more dirtree visits than the tree has directory
\* occurrences outside a root-level sysroot, and one that succeeds has made
\* exactly that many
VisitsBound ==
    mode = "export_commit" =>
      /\ visits <= DirOccurrences(repo.root, TRUE, TRUE)
      /\ pc = "done" => visits = DirOccurrences(repo.root, TRUE, TRUE)

\* C26: a full export makes at most one dirtree visit per directory
\* occurrence of the tree outside a root-level sysroot, and exactly that many
\* when it succeeds; every export and every reinjection that was started
\* finishes, with success or with an error: from some point on none is running.
C26_Termination ==
    /\ []VisitsBound
    /\ <>[](~ExportRunning /\ ~ReinjectRunning)

\* a finished full export of a commit with directories at three levels and a
\* root-level sysroot: four visits for five directory occurrences
C26_Witness ==
    /\ mode = "export_commit" /\ pc = "done" /\ repo.root = R_full
    /\ visits = 4
    /\ DirOccurrences(repo.root, TRUE, FALSE) = 5
=============================================================================
